---- MODULE Spec2Model ----
(***************************************************************************)
(* A model of the sliding-window core of etna: the candle ring buffer      *)
(* (pkg/window/ring_buffer.go), the window builder (pkg/window/builder.go) *)
(* and the window value object (pkg/model).                                *)
(*                                                                         *)
(* Further sections model the window writer (cmd/writer with the DuckDB    *)
(* repositories), the feature extractor, the outcome engine, the bucket    *)
(* classifiers and the time-decay reranker.                                *)
(*                                                                         *)
(* Several specifications share the module:                                *)
(*   Spec      - one Builder driven sequentially by Push and Reset;        *)
(*   SpecBatch - the same Builder, driven by ProcessCandles as well;       *)
(*   SpecConc  - one RingBuffer shared by a writer goroutine and reader    *)
(*               goroutines, with sync.RWMutex modelled step by step;      *)
(*   SpecWin   - direct calls of model.NewWindow;                          *)
(*   SpecWriter - deliveries of one window batch message to the writer;    *)
(*   SpecRing  - one RingBuffer and a Copy of it, driven sequentially;     *)
(*   SpecEmit  - one Builder and the windows its caller keeps;             *)
(*   SpecExtract, SpecOutcome, SpecVol, SpecPct, SpecRerank, SpecDown,     *)
(*   SpecAgg, SpecIDs -                                                    *)
(*               one call of a function on arguments drawn by the initial  *)
(*               state.                                                    *)
(* Each specification leaves the variables of the others unchanged.        *)
(***************************************************************************)
EXTENDS Integers, Sequences, FiniteSets, TLC

VARIABLES
    cfg,        \* Spec: the window.Config given to NewBuilder
    b,          \* Spec: the Builder (its fields, the ring buffer included)
    fresh,      \* Spec: a Builder constructed from cfg at the last Reset and pushed alike
    pushed,     \* Spec: history of the candles pushed since construction or the last Reset
    total,      \* Spec: number of Push calls made so far (bounds the run)
    resets,     \* Spec: number of Reset calls made so far (bounds the run)
    ret,        \* Spec: the last call and what it returned
    rbuf,       \* SpecConc: the RingBuffer rb shared by the goroutines
    mu,         \* SpecConc: rb.mu, the sync.RWMutex
    pc,         \* SpecConc: where each goroutine stands in its call
    loc,        \* SpecConc: the locals of each goroutine's call
    view,       \* SpecConc: the held candles, oldest first, as of the last completed Push/Clear
    wins,       \* SpecWin: the windows the last two NewWindow calls returned
    tabWindows, \* SpecWriter: the rows of table windows, in insertion order
    tabFeatures,\* SpecWriter: the rows of table window_features, in insertion order
    tab0,       \* SpecWriter: both tables as they were before the first delivery
    wmsg,       \* SpecWriter: the WindowBatchMsg the stream holds
    deliveries, \* SpecWriter: number of deliveries of wmsg made so far
    acks,       \* SpecWriter: number of deliveries the handler answered with Ack
    naks,       \* SpecWriter: the faults of the deliveries answered with Nak
    ring,       \* SpecRing: a *RingBuffer
    ringHeap,   \* SpecRing: the backing arrays of the buffers, by address
    ringCopy,   \* SpecRing: Nil, or the RingBuffer the last Copy returned
    ringHist,   \* SpecRing: the candles each buffer was pushed since its last Clear
    ringOld,    \* SpecRing: the candles each buffer was pushed before its last Clear
    ringOps,    \* SpecRing: the calls made so far, in order (bounds the run)
    args,       \* function specifications: the arguments of the call
    result,     \* function specifications: Nil, or what the call returned
    bp,         \* SpecEmit: the *Builder, its buffer's data slice held by address
    mem,        \* SpecEmit: the backing arrays of the slices, by address
    kept,       \* SpecEmit: the windows Push returned, each with what it was then
    emitLog     \* SpecEmit: the calls made so far, in order (bounds the run)

seqVars == <<cfg, b, fresh, pushed, total, resets, ret>>
concVars == <<rbuf, mu, pc, loc, view>>
winVars == <<wins>>
coreVars == <<seqVars, concVars, winVars>>
writerVars == <<tabWindows, tabFeatures, tab0, wmsg, deliveries, acks, naks>>
ringVars == <<ring, ringHeap, ringCopy, ringHist, ringOld, ringOps>>
fnVars == <<args, result>>
emitVars == <<bp, mem, kept, emitLog>>
extVars == <<writerVars, ringVars, fnVars, emitVars>>
vars == <<coreVars, extVars>>

-----------------------------------------------------------------------------
(* Bounds of the model *)

\* largest window length W (= ring capacity) a Config is drawn with
MaxW == 3
\* total number of candles pushed in one run
MaxPushes == 6
\* longest candle slice handed to ProcessCandles
MaxBatch == 2
\* number of Reset calls in one run
MaxResets == 1
\* total number of candles pushed in one run of SpecBatch
MaxBatchPushes == 4
\* capacity of the ring buffer the goroutines of SpecConc share
ConcCap == 2
\* the clock readings time.Now() returns in SpecWin are 0..MaxNow
MaxNow == 1

-----------------------------------------------------------------------------
(* Values *)

\* model.Candle, reduced to the fields the window core reads; times in ms
CandleA == [CloseTime |-> 59999, Close |-> 100]
CandleB == [CloseTime |-> 119999, Close |-> 101]
Candles == {CandleA, CandleB}

\* the Go zero value of model.Candle, which make([]model.Candle, n) fills with
ZeroCandle == [CloseTime |-> 0, Close |-> 0]

\* a nil pointer / absent result; a present one is the one-element sequence
Nil == <<>>

Min(x, y) == IF x <= y THEN x ELSE y

\* the last n elements of s, in order
LastN(s, n) == SubSeq(s, Len(s) - n + 1, Len(s))

-----------------------------------------------------------------------------
(* pkg/model: Window *)

\* time.Time.Unix(): whole seconds of a time kept in milliseconds
Unix(t) == t \div 1000

\* sha256 of the formatted key, first 16 bytes in hex: modelled as collision
\* free, i.e. by the formatted key itself
GenerateWindowID(symbol, timeframe, tEnd, w, featureVersion) ==
    symbol \o "|" \o timeframe \o "|" \o ToString(Unix(tEnd)) \o "|"
           \o ToString(w) \o "|" \o ToString(featureVersion)

\* a NewWindow whose id also covers the creation time
NewWindowStamped(symbol, timeframe, tEnd, w, featureVersion, candles, now) ==
    [ WindowID       |-> GenerateWindowID(symbol, timeframe, tEnd, w, featureVersion)
                             \o "|" \o ToString(now),
      Symbol         |-> symbol,
      Timeframe      |-> timeframe,
      TEnd           |-> tEnd,
      W              |-> w,
      FeatureVersion |-> featureVersion,
      Candles        |-> candles,
      CreatedAt      |-> now ]

\* now is the reading of time.Now() inside the call
NewWindow(symbol, timeframe, tEnd, w, featureVersion, candles, now) ==
    [ WindowID       |-> GenerateWindowID(symbol, timeframe, tEnd, w, featureVersion),
      Symbol         |-> symbol,
      Timeframe      |-> timeframe,
      TEnd           |-> tEnd,
      W              |-> w,
      FeatureVersion |-> featureVersion,
      Candles        |-> candles,
      CreatedAt      |-> now ]

IsNotEmpty(w) == Len(w.Candles) > 0

IsComplete(w) == Len(w.Candles) = w.W

-----------------------------------------------------------------------------
(* pkg/window: RingBuffer, as a value (the sequential view of each method) *)

NewRingBuffer(capacity) ==
    [ data     |-> [i \in 0..(capacity - 1) |-> ZeroCandle],
      capacity |-> capacity,
      size     |-> 0,
      head     |-> 0 ]

RingBuffer_PushNoWrap(rb, c) ==
    [rb EXCEPT !.data[rb.head] = c,
               !.head = IF rb.head + 1 < rb.capacity THEN rb.head + 1 ELSE rb.head,
               !.size = IF rb.size < rb.capacity THEN rb.size + 1 ELSE rb.size]

RingBuffer_Push(rb, c) ==
    [rb EXCEPT !.data[rb.head] = c,
               !.head = (rb.head + 1) % rb.capacity,
               !.size = IF rb.size < rb.capacity THEN rb.size + 1 ELSE rb.size]

RingBuffer_Size(rb) == rb.size

RingBuffer_IsFull(rb) == rb.size = rb.capacity

RingBuffer_Capacity(rb) == rb.capacity

RingBuffer_ToSliceFromZero(rb) == [i \in 1..rb.size |-> rb.data[i - 1]]

RingBuffer_ToSlice(rb) ==
    IF rb.size = 0
    THEN <<>>
    ELSE LET start == IF rb.size = rb.capacity THEN rb.head ELSE 0
         IN  [i \in 1..rb.size |-> rb.data[(start + (i - 1)) % rb.capacity]]

RingBuffer_Last(rb) ==
    IF rb.size = 0
    THEN Nil
    ELSE <<rb.data[((rb.head - 1) + rb.capacity) % rb.capacity]>>

RingBuffer_FirstAtZero(rb) == IF rb.size = 0 THEN Nil ELSE <<rb.data[0]>>

RingBuffer_First(rb) ==
    IF rb.size = 0
    THEN Nil
    ELSE LET start == IF rb.size = rb.capacity THEN rb.head ELSE 0
         IN  <<rb.data[start]>>

RingBuffer_ClearNothing(rb) == rb

RingBuffer_ClearKeepSize(rb) == [rb EXCEPT !.head = 0]

RingBuffer_Clear(rb) == [rb EXCEPT !.size = 0, !.head = 0]

-----------------------------------------------------------------------------
(* pkg/window: Builder *)

\* the Configs NewBuilder is called with: W >= 1 (NewRingBuffer(0) makes Push
\* divide by zero), any step including non-positive ones, any warm-up
\* including unset (0) and beyond W
Configs ==
    { c \in [W : 1..MaxW, S : (-1)..(MaxW + 1), Warmup : 0..(MaxW + 1),
             FeatureVersion : {1}, Symbol : {"BTCUSDT"}, Timeframe : {"1m"}] :
        c.S <= c.W + 1 /\ c.Warmup <= c.W + 1 }

NewBuilder(c) ==
    LET warmup == IF c.Warmup <= 0 THEN c.W ELSE c.Warmup
    IN  [ W              |-> c.W,
          S              |-> c.S,
          Warmup         |-> warmup,
          FeatureVersion |-> c.FeatureVersion,
          Symbol         |-> c.Symbol,
          Timeframe      |-> c.Timeframe,
          buffer         |-> NewRingBuffer(c.W),
          stepCount      |-> 0,
          warmedUp       |-> FALSE ]

\* the warm-up check of Push: the new values of (warmedUp, stepCount) after
\* the candle is in the buffer and the counter incremented
WarmupCheckNoForce(bd, size) ==
    IF ~bd.warmedUp /\ size >= bd.Warmup
    THEN [warmedUp |-> TRUE, stepCount |-> bd.stepCount]
    ELSE [warmedUp |-> bd.warmedUp, stepCount |-> bd.stepCount]

WarmupCheckFromZero(bd, size) ==
    IF ~bd.warmedUp /\ size >= bd.Warmup
    THEN [warmedUp |-> TRUE, stepCount |-> 0]
    ELSE [warmedUp |-> bd.warmedUp, stepCount |-> bd.stepCount]

WarmupCheckUnlatched(bd, size) ==
    IF ~bd.warmedUp /\ size >= bd.Warmup
    THEN [warmedUp |-> TRUE, stepCount |-> bd.S]
    ELSE [warmedUp |-> FALSE, stepCount |-> bd.stepCount]

WarmupCheck(bd, size) ==
    IF ~bd.warmedUp /\ size >= bd.Warmup
    THEN [warmedUp |-> TRUE, stepCount |-> bd.S]
    ELSE [warmedUp |-> bd.warmedUp, stepCount |-> bd.stepCount]

\* Builder.Push: the builder afterwards and the (window, ok) pair returned
Builder_Push(bd, c, now) ==
    LET buf   == RingBuffer_Push(bd.buffer, c)
        b1    == [bd EXCEPT !.buffer = buf, !.stepCount = bd.stepCount + 1]
        wc    == WarmupCheck(b1, RingBuffer_Size(buf))
        b2    == [b1 EXCEPT !.warmedUp = wc.warmedUp, !.stepCount = wc.stepCount]
    IN  IF ~b2.warmedUp \/ ~RingBuffer_IsFull(buf)
        THEN [b |-> b2, window |-> Nil, ok |-> FALSE]
        ELSE IF b2.stepCount < b2.S
        THEN [b |-> b2, window |-> Nil, ok |-> FALSE]
        ELSE LET b3      == [b2 EXCEPT !.stepCount = 0]
                 candles == RingBuffer_ToSlice(buf)
                 last    == RingBuffer_Last(buf)
             IN  IF last = Nil
                 THEN [b |-> b3, window |-> Nil, ok |-> FALSE]
                 ELSE [b |-> b3,
                       window |-> <<NewWindow(bd.Symbol, bd.Timeframe, last[1].CloseTime,
                                              bd.W, bd.FeatureVersion, candles, now)>>,
                       ok |-> TRUE]

Builder_Reset(bd) ==
    [bd EXCEPT !.buffer = RingBuffer_Clear(bd.buffer),
               !.stepCount = 0,
               !.warmedUp = FALSE]

IsWarmedUp(bd) == bd.warmedUp

CurrentSize(bd) == RingBuffer_Size(bd.buffer)

\* the range loop of ProcessCandles from index i on, windows being the slice
\* appended to so far
RECURSIVE ProcessCandlesLoop(_, _, _, _, _)
ProcessCandlesLoop(bd, candles, i, windows, now) ==
    IF i > Len(candles)
    THEN [b |-> bd, windows |-> windows]
    ELSE LET r == Builder_Push(bd, candles[i], now)
         IN  ProcessCandlesLoop(r.b, candles, i + 1,
                                IF r.ok THEN Append(windows, r.window[1]) ELSE windows,
                                now)

\* a ProcessCandles that skips a window whose id it has already produced
RECURSIVE DedupLoop(_, _, _, _, _)
DedupLoop(bd, candles, i, windows, now) ==
    IF i > Len(candles)
    THEN [b |-> bd, windows |-> windows]
    ELSE LET r    == Builder_Push(bd, candles[i], now)
             seen == r.ok /\ \E k \in 1..Len(windows) :
                                 windows[k].WindowID = r.window[1].WindowID
         IN  DedupLoop(r.b, candles, i + 1,
                       IF r.ok /\ ~seen THEN Append(windows, r.window[1]) ELSE windows,
                       now)

ProcessCandlesDedup(bd, candles, now) == DedupLoop(bd, candles, 1, <<>>, now)

ProcessCandles(bd, candles, now) == ProcessCandlesLoop(bd, candles, 1, <<>>, now)

-----------------------------------------------------------------------------
(* rb.mu: sync.RWMutex.  readers counts the read locks held; writer is      *)
(* "none", "waiting" (Lock has announced the writer and waits for the      *)
(* readers to leave) or "held".  A writer that waits or holds blocks every *)
(* new RLock, as Go's RWMutex does.                                        *)

NewRWMutex == [readers |-> 0, writer |-> "none"]

\* an RLock that never waits for the writer
RLockReadyAlways(m) == TRUE

\* RLock returns only while no writer waits for or holds the lock
RLockReady(m) == m.writer = "none"

\* Lock returns only when the readers have left
LockReady(m) == m.writer = "waiting" /\ m.readers = 0

-----------------------------------------------------------------------------
(* Spec: one Builder, called sequentially *)

Batches == UNION { [1..n -> Candles] : n \in 0..MaxBatch }

SeqInit ==
    /\ cfg \in Configs
    /\ b = NewBuilder(cfg)
    /\ fresh = NewBuilder(cfg)
    /\ pushed = <<>>
    /\ total = 0
    /\ resets = 0
    /\ ret = [op |-> "NewBuilder"]

\* the builder of SpecConc and SpecWin, which do not call it
SeqIdle ==
    /\ cfg = [W |-> 1, S |-> 1, Warmup |-> 0, FeatureVersion |-> 1,
              Symbol |-> "BTCUSDT", Timeframe |-> "1m"]
    /\ b = NewBuilder(cfg)
    /\ fresh = NewBuilder(cfg)
    /\ pushed = <<>>
    /\ total = 0
    /\ resets = 0
    /\ ret = [op |-> "NewBuilder"]

\* the reading of time.Now() in Spec and SpecBatch: a clock that ticks once
\* per candle pushed
Now == total

\* b.Push(c)
Push(c) ==
    /\ total < MaxPushes
    /\ LET r == Builder_Push(b, c, Now)
           f == Builder_Push(fresh, c, Now)
       IN  /\ b' = r.b
           /\ fresh' = f.b
           /\ ret' = [op |-> "Push", window |-> r.window, ok |-> r.ok,
                      freshWindow |-> f.window, freshOk |-> f.ok]
    /\ pushed' = Append(pushed, c)
    /\ total' = total + 1
    /\ UNCHANGED <<cfg, resets, concVars, winVars, extVars>>

\* b.ProcessCandles(cs); the whole batch runs within one clock reading
DoProcessCandles(cs) ==
    /\ total + Len(cs) <= MaxBatchPushes
    /\ LET r == ProcessCandles(b, cs, Now)
           f == ProcessCandles(fresh, cs, Now)
       IN  /\ b' = r.b
           /\ fresh' = f.b
           /\ ret' = [op |-> "ProcessCandles",
                      windows |-> r.windows, freshWindows |-> f.windows]
    /\ pushed' = pushed \o cs
    /\ total' = total + Len(cs)
    /\ UNCHANGED <<cfg, resets, concVars, winVars, extVars>>

\* b.Reset()
Reset ==
    /\ resets < MaxResets
    /\ b' = Builder_Reset(b)
    /\ fresh' = NewBuilder(cfg)
    /\ pushed' = <<>>
    /\ resets' = resets + 1
    /\ ret' = [op |-> "Reset"]
    /\ UNCHANGED <<cfg, total, concVars, winVars, extVars>>

-----------------------------------------------------------------------------
(* SpecConc: one RingBuffer, a writer goroutine calling Push and Clear, and *)
(* reader goroutines calling Size, IsFull, ToSlice, First, Last and Copy.  *)
(* Every lock operation and every access to the buffer's fields between    *)
(* two lock operations is a step of its own.                               *)

Writer == "w"
Readers == {"r1", "r2"}
Goroutines == {Writer} \cup Readers

Getters == {"Size", "IsFull", "First", "Last"}

NoLocals == [op |-> "none", caller |-> "none", c |-> ZeroCandle, n |-> 0,
             start |-> 0, i |-> 0, result |-> <<>>]

ConcInit ==
    /\ rbuf = NewRingBuffer(ConcCap)
    /\ mu = NewRWMutex
    /\ pc = [g \in Goroutines |-> "idle"]
    /\ loc = [g \in Goroutines |-> NoLocals]
    /\ view = <<>>

\* --- the writer ---

\* rb.Push(c) / rb.Clear() is called: rb.mu.Lock() announces the writer
CallWrite(op, c) ==
    /\ pc[Writer] = "idle"
    /\ mu.writer = "none"
    /\ mu' = [mu EXCEPT !.writer = "waiting"]
    /\ pc' = [pc EXCEPT ![Writer] = "Lock"]
    /\ loc' = [loc EXCEPT ![Writer] = [NoLocals EXCEPT !.op = op, !.c = c]]
    /\ UNCHANGED <<rbuf, view, seqVars, winVars, extVars>>

\* rb.mu.Lock() returns
Lock ==
    /\ pc[Writer] = "Lock"
    /\ LockReady(mu)
    /\ mu' = [mu EXCEPT !.writer = "held"]
    /\ pc' = [pc EXCEPT ![Writer] = IF loc[Writer].op = "Push" THEN "Push_data"
                                                               ELSE "Clear_size"]
    /\ UNCHANGED <<rbuf, loc, view, seqVars, winVars, extVars>>

\* rb.data[rb.head] = c
Push_data ==
    /\ pc[Writer] = "Push_data"
    /\ rbuf' = [rbuf EXCEPT !.data[rbuf.head] = loc[Writer].c]
    /\ pc' = [pc EXCEPT ![Writer] = "Push_head"]
    /\ UNCHANGED <<mu, loc, view, seqVars, winVars, extVars>>

\* rb.head = (rb.head + 1) % rb.capacity
Push_head ==
    /\ pc[Writer] = "Push_head"
    /\ rbuf' = [rbuf EXCEPT !.head = (rbuf.head + 1) % rbuf.capacity]
    /\ pc' = [pc EXCEPT ![Writer] = "Push_size"]
    /\ UNCHANGED <<mu, loc, view, seqVars, winVars, extVars>>

\* if rb.size < rb.capacity { rb.size++ }
Push_size ==
    /\ pc[Writer] = "Push_size"
    /\ rbuf' = [rbuf EXCEPT !.size = IF rbuf.size < rbuf.capacity THEN rbuf.size + 1 ELSE rbuf.size]
    /\ pc' = [pc EXCEPT ![Writer] = "Unlock"]
    /\ UNCHANGED <<mu, loc, view, seqVars, winVars, extVars>>

\* rb.size = 0
Clear_size ==
    /\ pc[Writer] = "Clear_size"
    /\ rbuf' = [rbuf EXCEPT !.size = 0]
    /\ pc' = [pc EXCEPT ![Writer] = "Clear_head"]
    /\ UNCHANGED <<mu, loc, view, seqVars, winVars, extVars>>

\* rb.head = 0
Clear_head ==
    /\ pc[Writer] = "Clear_head"
    /\ rbuf' = [rbuf EXCEPT !.head = 0]
    /\ pc' = [pc EXCEPT ![Writer] = "Unlock"]
    /\ UNCHANGED <<mu, loc, view, seqVars, winVars, extVars>>

\* the deferred rb.mu.Unlock(); the call returns and the operation is complete
Unlock ==
    /\ pc[Writer] = "Unlock"
    /\ mu' = [mu EXCEPT !.writer = "none"]
    /\ view' = IF loc[Writer].op = "Push"
               THEN LET all == Append(view, loc[Writer].c)
                    IN  LastN(all, Min(Len(all), rbuf.capacity))
               ELSE <<>>
    /\ pc' = [pc EXCEPT ![Writer] = "idle"]
    /\ loc' = [loc EXCEPT ![Writer] = NoLocals]
    /\ UNCHANGED <<rbuf, seqVars, winVars, extVars>>

\* --- the readers ---

\* g calls a read-only method; its first statement is rb.mu.RLock()
CallRead(g, op) ==
    /\ pc[g] = "idle"
    /\ pc' = [pc EXCEPT ![g] = "RLock"]
    /\ loc' = [loc EXCEPT ![g] = [NoLocals EXCEPT !.op = op]]
    /\ UNCHANGED <<rbuf, mu, view, seqVars, winVars, extVars>>

\* rb.mu.RLock() returns in g: the outer one of its method, or the one of the
\* rb.ToSlice() that Copy calls while it holds its own read lock
RLock(g) ==
    /\ pc[g] = "RLock"
    /\ RLockReady(mu)
    /\ mu' = [mu EXCEPT !.readers = mu.readers + 1]
    /\ pc' = [pc EXCEPT ![g] = IF loc[g].op \in Getters THEN "Getter"
                               ELSE IF loc[g].op = "Copy" /\ loc[g].caller = "none"
                               THEN "Copy_new"
                               ELSE "ToSlice_make"]
    /\ UNCHANGED <<rbuf, loc, view, seqVars, winVars, extVars>>

\* the body of Size, IsFull, First or Last, its deferred RUnlock and return
Getter(g) ==
    /\ pc[g] = "Getter"
    /\ mu' = [mu EXCEPT !.readers = mu.readers - 1]
    /\ pc' = [pc EXCEPT ![g] = "idle"]
    /\ loc' = [loc EXCEPT ![g] = NoLocals]
    /\ UNCHANGED <<rbuf, view, seqVars, winVars, extVars>>

\* Copy: newRb := NewRingBuffer(rb.capacity); candles := rb.ToSlice() is called
Copy_new(g) ==
    /\ pc[g] = "Copy_new"
    /\ pc' = [pc EXCEPT ![g] = "RLock"]
    /\ loc' = [loc EXCEPT ![g].caller = "Copy"]
    /\ UNCHANGED <<rbuf, mu, view, seqVars, winVars, extVars>>

\* ToSlice: result := make([]model.Candle, rb.size); if rb.size == 0 { return result }
ToSlice_make(g) ==
    /\ pc[g] = "ToSlice_make"
    /\ loc' = [loc EXCEPT ![g].n = rbuf.size,
                          ![g].result = [k \in 1..rbuf.size |-> ZeroCandle]]
    /\ pc' = [pc EXCEPT ![g] = IF rbuf.size = 0 THEN "ToSlice_ret" ELSE "ToSlice_start"]
    /\ UNCHANGED <<rbuf, mu, view, seqVars, winVars, extVars>>

\* ToSlice: start := 0; if rb.size == rb.capacity { start = rb.head }
ToSlice_start(g) ==
    /\ pc[g] = "ToSlice_start"
    /\ loc' = [loc EXCEPT ![g].start = IF rbuf.size = rbuf.capacity THEN rbuf.head ELSE 0,
                          ![g].i = 0]
    /\ pc' = [pc EXCEPT ![g] = "ToSlice_loop"]
    /\ UNCHANGED <<rbuf, mu, view, seqVars, winVars, extVars>>

\* ToSlice: one round of for i := 0; i < rb.size; i++ { result[i] = rb.data[idx] }.
\* result has the length read by make: an index beyond it panics, which ends
\* the call with the deferred RUnlock
ToSlice_loop(g) ==
    /\ pc[g] = "ToSlice_loop"
    /\ IF loc[g].i < rbuf.size /\ loc[g].i < loc[g].n
       THEN /\ loc' = [loc EXCEPT
                         ![g].result[loc[g].i + 1] =
                             rbuf.data[(loc[g].start + loc[g].i) % rbuf.capacity],
                         ![g].i = loc[g].i + 1]
            /\ pc' = pc
       ELSE /\ pc' = [pc EXCEPT ![g] = "ToSlice_ret"]
            /\ loc' = loc
    /\ UNCHANGED <<rbuf, mu, view, seqVars, winVars, extVars>>

\* ToSlice: the deferred rb.mu.RUnlock() and return result, to the caller of
\* ToSlice or into Copy's candles
ToSlice_ret(g) ==
    /\ pc[g] = "ToSlice_ret"
    /\ mu' = [mu EXCEPT !.readers = mu.readers - 1]
    /\ IF loc[g].caller = "Copy"
       THEN /\ pc' = [pc EXCEPT ![g] = "Copy_ret"]
            /\ loc' = loc
       ELSE /\ pc' = [pc EXCEPT ![g] = "idle"]
            /\ loc' = [loc EXCEPT ![g] = NoLocals]
    /\ UNCHANGED <<rbuf, view, seqVars, winVars, extVars>>

\* the buffer Copy returns: every candle of candles pushed into newRb
RECURSIVE PushAll(_, _, _)
PushAll(newRb, candles, k) ==
    IF k > Len(candles) THEN newRb
    ELSE PushAll(RingBuffer_Push(newRb, candles[k]), candles, k + 1)

RingBuffer_Copy(r) == PushAll(NewRingBuffer(r.capacity), RingBuffer_ToSlice(r), 1)

\* Copy: for _, c := range candles { newRb.Push(c) } on the private newRb, the
\* deferred rb.mu.RUnlock() and return newRb
Copy_ret(g) ==
    /\ pc[g] = "Copy_ret"
    /\ mu' = [mu EXCEPT !.readers = mu.readers - 1]
    /\ pc' = [pc EXCEPT ![g] = "idle"]
    /\ loc' = [loc EXCEPT ![g] = NoLocals]
    /\ UNCHANGED <<rbuf, view, seqVars, winVars, extVars>>

\* a step of a call that is under way
Proceed ==
    \/ Lock
    \/ Push_data
    \/ Push_head
    \/ Push_size
    \/ Clear_size
    \/ Clear_head
    \/ Unlock
    \/ \E g \in Readers : RLock(g)
    \/ \E g \in Readers : Getter(g)
    \/ \E g \in Readers : Copy_new(g)
    \/ \E g \in Readers : ToSlice_make(g)
    \/ \E g \in Readers : ToSlice_start(g)
    \/ \E g \in Readers : ToSlice_loop(g)
    \/ \E g \in Readers : ToSlice_ret(g)
    \/ \E g \in Readers : Copy_ret(g)

ConcNext ==
    \/ \E c \in Candles : CallWrite("Push", c)
    \/ CallWrite("Clear", ZeroCandle)
    \/ \E g \in Readers, op \in Getters \cup {"ToSlice", "Copy"} : CallRead(g, op)
    \/ Proceed

-----------------------------------------------------------------------------
(* SpecWin: calls of model.NewWindow *)

Symbols == {"BTCUSDT", "ETHUSDT"}
Timeframes == {"1m", "5m"}
\* two end times a millisecond apart, in different seconds
TEnds == {59999, 60000}
CandleSlices == {<<CandleA>>, <<CandleB, CandleA>>}

WinInit == wins = <<>>

\* model.NewWindow(symbol, timeframe, tEnd, w, featureVersion, candles), with
\* time.Now() reading now; wins keeps the last two windows returned
CallNewWindow(symbol, timeframe, tEnd, w, featureVersion, candles, now) ==
    /\ wins' = LastN(Append(wins, NewWindow(symbol, timeframe, tEnd, w,
                                            featureVersion, candles, now)),
                     Min(Len(wins) + 1, 2))
    /\ UNCHANGED <<seqVars, concVars, extVars>>

WinNext ==
    \E symbol \in Symbols, timeframe \in Timeframes, tEnd \in TEnds,
       w \in 1..2, featureVersion \in 1..2, candles \in CandleSlices,
       now \in 0..MaxNow :
        CallNewWindow(symbol, timeframe, tEnd, w, featureVersion, candles, now)

-----------------------------------------------------------------------------
(* cmd/writer, pkg/store/duckdb, pkg/queue/nats: the window writer *)

\* longest Windows and Features slice of the batch message
MaxMsg == 2
\* jetstream.ConsumerConfig.MaxDeliver of Client.Subscribe
MaxDeliver == 3

\* the windows a batch is made of: WinX and WinXLater are the same window
\* built at different clock readings, WinY ends a minute later
WinX == NewWindow("BTCUSDT", "1m", 59999, 1, 1, <<CandleA>>, 0)
WinXLater == NewWindow("BTCUSDT", "1m", 59999, 1, 1, <<CandleA>>, 1)
WinY == NewWindow("BTCUSDT", "1m", 119999, 1, 1, <<CandleB>>, 1)
MsgWindows == {WinX, WinXLater, WinY}

\* model.FeatureRow, reduced to its key and one value column
FeatureRow(windowID, trendSlope) ==
    [WindowID |-> windowID, TrendSlope |-> trendSlope]
MsgFeatures ==
    {FeatureRow(WinX.WindowID, 1), FeatureRow(WinX.WindowID, 2),
     FeatureRow(WinY.WindowID, 1)}

\* the sequences over set of length 0..n
SeqsUpTo(set, n) == UNION {[1..k -> set] : k \in 0..n}

\* the columns WindowRepo.InsertBatch binds for one window (no candles)
WindowRow(w) ==
    [window_id |-> w.WindowID, symbol |-> w.Symbol, timeframe |-> w.Timeframe,
     t_end |-> w.TEnd, w |-> w.W, feature_version |-> w.FeatureVersion,
     created_at |-> w.CreatedAt]

\* the columns FeatureRepo.InsertBatch binds for one feature row
FeatureCols(f) == [window_id |-> f.WindowID, trend_slope |-> f.TrendSlope]

HasKey(tab, id) == \E i \in 1..Len(tab) : tab[i].window_id = id

\* INSERT without a conflict clause, on a table without its key
InsertAppend(tab, row) == Append(tab, row)

\* INSERT ... ON CONFLICT (window_id) DO NOTHING
InsertDoNothing(tab, row) ==
    IF HasKey(tab, row.window_id) THEN tab ELSE Append(tab, row)

\* INSERT ... ON CONFLICT (window_id) DO UPDATE SET every column = EXCLUDED
InsertDoUpdate(tab, row) ==
    IF HasKey(tab, row.window_id)
    THEN [i \in 1..Len(tab) |->
             IF tab[i].window_id = row.window_id THEN row ELSE tab[i]]
    ELSE Append(tab, row)

RECURSIVE WindowExecLoop(_, _, _)
\* the loop of WindowRepo.InsertBatch from windows[i] on
WindowExecLoop(tab, windows, i) ==
    IF i > Len(windows) THEN tab
    ELSE WindowExecLoop(InsertDoNothing(tab, WindowRow(windows[i])), windows, i + 1)

RECURSIVE FeatureExecLoop(_, _, _)
\* the loop of FeatureRepo.InsertBatch from features[i] on
FeatureExecLoop(tab, features, i) ==
    IF i > Len(features) THEN tab
    ELSE FeatureExecLoop(InsertDoUpdate(tab, FeatureCols(features[i])), features, i + 1)

\* WindowRepo.InsertBatch: one transaction; a failure of Begin, Prepare, Exec
\* or Commit (failed) rolls it back and leaves the table as it was
WindowRepo_InsertBatch(tab, windows, failed) ==
    IF failed THEN [tab |-> tab, err |-> TRUE]
    ELSE [tab |-> WindowExecLoop(tab, windows, 1), err |-> FALSE]

\* FeatureRepo.InsertBatch: likewise
FeatureRepo_InsertBatch(tab, features, failed) ==
    IF failed THEN [tab |-> tab, err |-> TRUE]
    ELSE [tab |-> FeatureExecLoop(tab, features, 1), err |-> FALSE]

\* what can go wrong during one run of the handler
Faults == {"none", "decode", "windows", "features"}

\* the window-writer handler of cmd/writer/main.go on the batch m, with the
\* tables tw and tf; fault tells which of its steps fails, if it is reached
WindowHandler(tw, tf, m, fault) ==
    IF fault = "decode" THEN [windows |-> tw, features |-> tf, err |-> TRUE]
    ELSE IF Len(m.Windows) = 0 THEN [windows |-> tw, features |-> tf, err |-> FALSE]
    ELSE LET wr == WindowRepo_InsertBatch(tw, m.Windows, fault = "windows")
         IN  IF wr.err THEN [windows |-> tw, features |-> tf, err |-> TRUE]
             ELSE IF Len(m.Features) > 0
             THEN LET fr == FeatureRepo_InsertBatch(tf, m.Features, fault = "features")
                  IN  [windows |-> wr.tab, features |-> fr.tab, err |-> fr.err]
             ELSE [windows |-> wr.tab, features |-> tf, err |-> FALSE]

\* the tables before the first delivery: empty, or holding window X already
InitialTables ==
    {[windows |-> <<>>, features |-> <<>>],
     [windows |-> <<WindowRow(WinXLater)>>,
      features |-> <<FeatureCols(FeatureRow(WinX.WindowID, 2))>>]}

WriterInit ==
    /\ tab0 \in InitialTables
    /\ tabWindows = tab0.windows
    /\ tabFeatures = tab0.features
    /\ wmsg \in {[Windows |-> ws, Features |-> fs] :
                   ws \in SeqsUpTo(MsgWindows, MaxMsg),
                   fs \in SeqsUpTo(MsgFeatures, MaxMsg)}
    /\ deliveries = 0
    /\ acks = 0
    /\ naks = {}

\* the writer's variables while another specification runs
WriterIdle ==
    /\ tab0 = [windows |-> <<>>, features |-> <<>>]
    /\ tabWindows = <<>>
    /\ tabFeatures = <<>>
    /\ wmsg = [Windows |-> <<>>, Features |-> <<>>]
    /\ deliveries = 0
    /\ acks = 0
    /\ naks = {}

\* one delivery of wmsg to the consumer callback of Client.Subscribe: the
\* handler runs, and the message is Ack'ed on nil and Nak'ed on an error.
\* JetStream delivers again after a Nak, and after an Ack it did not see,
\* up to MaxDeliver times in all.
Deliver(fault) ==
    /\ deliveries < MaxDeliver
    /\ LET r == WindowHandler(tabWindows, tabFeatures, wmsg, fault)
       IN  /\ tabWindows' = r.windows
           /\ tabFeatures' = r.features
           /\ acks' = IF r.err THEN acks ELSE acks + 1
           /\ naks' = IF r.err THEN naks \cup {fault} ELSE naks
    /\ deliveries' = deliveries + 1
    /\ UNCHANGED <<tab0, wmsg, coreVars, ringVars, fnVars, emitVars>>

WriterNext == \E fault \in Faults : Deliver(fault)

-----------------------------------------------------------------------------
(* SpecRing: a RingBuffer and a Copy of it, called from one goroutine *)

\* largest capacity the buffer of SpecRing is constructed with
MaxRingCap == 2
\* number of calls in one run of SpecRing
MaxRingOps == 5

\* A *RingBuffer is held as its scalar fields and the address of its data
\* slice; ringHeap maps the addresses to the backing arrays.
OrigData == 1
CopyDataShared(r) == r.data
\* the address of the array make([]model.Candle, capacity) allocates for the
\* buffer NewRingBuffer returns inside Copy of r: a fresh one
CopyData(r) == 2

\* the buffer a pointer p refers to, with its backing array read from heap
Deref(heap, p) ==
    [data |-> heap[p.data], capacity |-> p.capacity, size |-> p.size, head |-> p.head]

\* the pointer p after its buffer became rb (the data slice is not reassigned)
Fields(p, rb) == [p EXCEPT !.size = rb.size, !.head = rb.head]

\* the k-th candle of the run: candles of one series close a minute apart
NextCandle(k) == [CloseTime |-> k * 60000 - 1, Close |-> 100]

RingInit ==
    /\ \E capacity \in 1..MaxRingCap :
          /\ ring = [data |-> OrigData, capacity |-> capacity, size |-> 0, head |-> 0]
          /\ ringHeap = [a \in {OrigData} |-> NewRingBuffer(capacity).data]
    /\ ringCopy = Nil
    /\ ringHist = [orig |-> <<>>, copy |-> <<>>]
    /\ ringOld = [orig |-> {}, copy |-> {}]
    /\ ringOps = <<>>

\* the buffers' variables while another specification runs
RingIdle ==
    /\ ring = [data |-> OrigData, capacity |-> 1, size |-> 0, head |-> 0]
    /\ ringHeap = [a \in {OrigData} |-> NewRingBuffer(1).data]
    /\ ringCopy = Nil
    /\ ringHist = [orig |-> <<>>, copy |-> <<>>]
    /\ ringOld = [orig |-> {}, copy |-> {}]
    /\ ringOps = <<>>

\* ring.Push(c)
RingPush ==
    /\ Len(ringOps) < MaxRingOps
    /\ LET c == NextCandle(Len(ringOps) + 1)
           rb == RingBuffer_Push(Deref(ringHeap, ring), c)
       IN  /\ ringHeap' = [ringHeap EXCEPT ![ring.data] = rb.data]
           /\ ring' = Fields(ring, rb)
           /\ ringHist' = [ringHist EXCEPT !.orig = Append(@, c)]
    /\ ringOps' = Append(ringOps, "Push")
    /\ UNCHANGED <<ringCopy, ringOld, coreVars, writerVars, fnVars, emitVars>>

\* ring.Clear()
RingClear ==
    /\ Len(ringOps) < MaxRingOps
    /\ LET rb == RingBuffer_Clear(Deref(ringHeap, ring))
       IN  /\ ringHeap' = [ringHeap EXCEPT ![ring.data] = rb.data]
           /\ ring' = Fields(ring, rb)
    /\ ringOld' = [ringOld EXCEPT !.orig = @ \cup {ringHist.orig[i] : i \in 1..Len(ringHist.orig)}]
    /\ ringHist' = [ringHist EXCEPT !.orig = <<>>]
    /\ ringOps' = Append(ringOps, "Clear")
    /\ UNCHANGED <<ringCopy, coreVars, writerVars, fnVars, emitVars>>

\* ringCopy = ring.Copy()
RingCopy ==
    /\ Len(ringOps) < MaxRingOps
    /\ LET newRb == RingBuffer_Copy(Deref(ringHeap, ring))
           addr == CopyData(ring)
       IN  /\ ringHeap' = [a \in DOMAIN ringHeap \cup {addr} |->
                              IF a = addr THEN newRb.data ELSE ringHeap[a]]
           /\ ringCopy' = <<[data |-> addr, capacity |-> newRb.capacity,
                             size |-> newRb.size, head |-> newRb.head]>>
    /\ ringHist' = [ringHist EXCEPT !.copy = ringHist.orig]
    /\ ringOld' = [ringOld EXCEPT !.copy = ringOld.orig]
    /\ ringOps' = Append(ringOps, "Copy")
    /\ UNCHANGED <<ring, coreVars, writerVars, fnVars, emitVars>>

\* ringCopy.Push(c)
CopyPush ==
    /\ Len(ringOps) < MaxRingOps
    /\ ringCopy # Nil
    /\ LET c == NextCandle(Len(ringOps) + 1)
           rb == RingBuffer_Push(Deref(ringHeap, ringCopy[1]), c)
       IN  /\ ringHeap' = [ringHeap EXCEPT ![ringCopy[1].data] = rb.data]
           /\ ringCopy' = <<Fields(ringCopy[1], rb)>>
           /\ ringHist' = [ringHist EXCEPT !.copy = Append(@, c)]
    /\ ringOps' = Append(ringOps, "CopyPush")
    /\ UNCHANGED <<ring, ringOld, coreVars, writerVars, fnVars, emitVars>>

\* ringCopy.Clear()
CopyClear ==
    /\ Len(ringOps) < MaxRingOps
    /\ ringCopy # Nil
    /\ LET rb == RingBuffer_Clear(Deref(ringHeap, ringCopy[1]))
       IN  /\ ringHeap' = [ringHeap EXCEPT ![ringCopy[1].data] = rb.data]
           /\ ringCopy' = <<Fields(ringCopy[1], rb)>>
    /\ ringOld' = [ringOld EXCEPT !.copy = @ \cup {ringHist.copy[i] : i \in 1..Len(ringHist.copy)}]
    /\ ringHist' = [ringHist EXCEPT !.copy = <<>>]
    /\ ringOps' = Append(ringOps, "CopyClear")
    /\ UNCHANGED <<ring, coreVars, writerVars, fnVars, emitVars>>

RingNext == RingPush \/ RingClear \/ RingCopy \/ CopyPush \/ CopyClear

\* the buffers as the calls of SpecRing see them
Orig == Deref(ringHeap, ring)
TheCopy == Deref(ringHeap, ringCopy[1])

\* what Size(), ToSlice(), First() and Last() return on rb
Observed(rb) ==
    <<RingBuffer_Size(rb), RingBuffer_ToSlice(rb), RingBuffer_First(rb),
      RingBuffer_Last(rb)>>

-----------------------------------------------------------------------------
(* SpecEmit: a Builder whose caller keeps every window Push returned; the  *)
(* slices are held by address, as in SpecRing                              *)

\* number of calls in one run of SpecEmit
MaxEmitOps == 5

ToSliceAlias(rb, free) == rb.data
\* the address of the array result := make([]model.Candle, rb.size)
\* allocates in ToSlice of rb: the first free one
ToSliceResult(rb, free) == free

\* the candles at the slice sl = (data address, len), read from heap
SliceOf(heap, sl) == [i \in 1..sl.len |-> heap[sl.data][i - 1]]

\* the window a pointer held by the caller refers to, as the caller reads it
WindowAt(heap, w) == [w EXCEPT !.Candles = SliceOf(heap, w.Candles)]

EmitInit ==
    /\ \E c \in Configs :
          LET bd == NewBuilder(c)
          IN  /\ bp = [bd EXCEPT !.buffer = [data |-> OrigData, capacity |-> bd.buffer.capacity,
                                             size |-> 0, head |-> 0]]
              /\ mem = [a \in {OrigData} |-> bd.buffer.data]
    /\ kept = <<>>
    /\ emitLog = <<>>

\* the builder's variables while another specification runs
EmitIdle ==
    /\ bp = Nil
    /\ mem = <<>>
    /\ kept = <<>>
    /\ emitLog = <<>>

\* w, ok := bp.Push(c); the caller keeps w when ok
EmitPush ==
    /\ Len(emitLog) < MaxEmitOps
    /\ LET c == NextCandle(Len(emitLog) + 1)
           r == Builder_Push([bp EXCEPT !.buffer = Deref(mem, bp.buffer)], c, 0)
           mem1 == [mem EXCEPT ![bp.buffer.data] = r.b.buffer.data]
           addr == ToSliceResult(bp.buffer, OrigData + Len(kept) + 1)
       IN  /\ bp' = [r.b EXCEPT !.buffer = Fields(bp.buffer, r.b.buffer)]
           /\ IF r.ok
              THEN LET w == r.window[1]
                       n == Len(w.Candles)
                   IN  /\ mem' = IF addr \in DOMAIN mem1 THEN mem1
                                 ELSE [a \in DOMAIN mem1 \cup {addr} |->
                                          IF a = addr
                                          THEN [i \in 0..(n - 1) |-> w.Candles[i + 1]]
                                          ELSE mem1[a]]
                       /\ kept' = Append(kept,
                                     [w |-> [w EXCEPT !.Candles = [data |-> addr, len |-> n]],
                                      was |-> w,
                                      at |-> Len(emitLog) + 1])
              ELSE mem' = mem1 /\ kept' = kept
    /\ emitLog' = Append(emitLog, "Push")
    /\ UNCHANGED <<coreVars, writerVars, ringVars, fnVars>>

\* bp.Reset()
EmitReset ==
    /\ Len(emitLog) < MaxEmitOps
    /\ LET bd == Builder_Reset([bp EXCEPT !.buffer = Deref(mem, bp.buffer)])
       IN  /\ bp' = [bd EXCEPT !.buffer = Fields(bp.buffer, bd.buffer)]
           /\ mem' = [mem EXCEPT ![bp.buffer.data] = bd.buffer.data]
    /\ emitLog' = Append(emitLog, "Reset")
    /\ UNCHANGED <<kept, coreVars, writerVars, ringVars, fnVars>>

EmitNext == EmitPush \/ EmitReset

-----------------------------------------------------------------------------
(* Function specifications: arguments drawn by Init, one call *)

FnIdle == args = Nil /\ result = Nil

-----------------------------------------------------------------------------
(* pkg/feature: Extractor *)

\* largest W and candle count of the windows handed to Extract
MaxExtractW == 3
\* largest Extractor.VectorDim
MaxVectorDim == 9

\* The float64 arithmetic over prices and volumes is not evaluated: a value
\* is the term naming the function and what it was applied to.
Term(fn, of) == [fn |-> fn, of |-> of]

\* NormalizeReturns, NormalizeRanges, NormalizeWicks (upper, lower) and
\* NormalizeVolumes: nil for no candles, else one sample per candle
Normalize(series, candles) ==
    [i \in 1..Len(candles) |-> Term(series, <<i - 1, candles[i]>>)]

\* the zero value of a float64 or float32 element, as make leaves it
FloatZero == Term("zero", <<>>)

\* float32(x)
Float32(x) == Term("float32", x)

DownsampleCeil(values, targetLen) ==
    IF Len(values) <= targetLen THEN values
    ELSE [k \in 1..targetLen |->
            LET i == k - 1
                start == (i * Len(values)) \div targetLen
                end == Min(-((-((i + 1) * Len(values))) \div targetLen), Len(values))
            IN  IF end > start
                THEN Term("average", SubSeq(values, start + 1, end))
                ELSE FloatZero]

\* downsample(values, targetLen); i * ratio is taken exactly, as the float64
\* product is truncated to for every series shorter than 15 samples
Downsample(values, targetLen) ==
    IF Len(values) <= targetLen THEN values
    ELSE [k \in 1..targetLen |->
            LET i == k - 1
                start == (i * Len(values)) \div targetLen
                end == Min(((i + 1) * Len(values)) \div targetLen, Len(values))
            IN  IF end > start
                THEN Term("average", SubSeq(values, start + 1, end))
                ELSE FloatZero]

\* one of the four fill loops of buildShapeVector, writing at most
\* samplesPerFeature samples of values into vector from index idx on;
\* vector and idx are 0-based as in the code
FillLoop(vector, idx, values, samplesPerFeature, dim) ==
    [j \in 0..(dim - 1) |->
        IF j >= idx /\ j - idx < samplesPerFeature /\ j - idx < Len(values)
        THEN Float32(values[(j - idx) + 1])
        ELSE vector[j]]

\* idx after one fill loop
FillEnd(idx, samplesPerFeature, dim) == Min(idx + samplesPerFeature, dim)

BuildShapeVectorFixedBlocks(e, candles) ==
    LET samplesPerFeature == e.VectorDim \div 4
        returns == Downsample(Normalize("returns", candles), samplesPerFeature)
        ranges == Downsample(Normalize("ranges", candles), samplesPerFeature)
        upperWicks == Downsample(Normalize("upperWicks", candles), samplesPerFeature)
        lowerWicks == Downsample(Normalize("lowerWicks", candles), samplesPerFeature)
        dim == e.VectorDim
        v0 == [j \in 0..(dim - 1) |-> FloatZero]
        v1 == FillLoop(v0, 0, returns, samplesPerFeature, dim)
        i1 == FillEnd(0, samplesPerFeature, dim)
        v2 == FillLoop(v1, i1, ranges, samplesPerFeature, dim)
        i2 == FillEnd(i1, samplesPerFeature, dim)
        v3 == FillLoop(v2, i2, upperWicks, samplesPerFeature, dim)
        i3 == FillEnd(i2, samplesPerFeature, dim)
        v4 == FillLoop(v3, i3, lowerWicks, samplesPerFeature, dim)
    IN  [k \in 1..dim |-> v4[k - 1]]

\* Extractor.buildShapeVector, the vector returned as a sequence
BuildShapeVector(e, candles) ==
    LET samplesPerFeature == Min(e.VectorDim \div 4, Len(candles))
        returns == Downsample(Normalize("returns", candles), samplesPerFeature)
        ranges == Downsample(Normalize("ranges", candles), samplesPerFeature)
        upperWicks == Downsample(Normalize("upperWicks", candles), samplesPerFeature)
        lowerWicks == Downsample(Normalize("lowerWicks", candles), samplesPerFeature)
        dim == e.VectorDim
        v0 == [j \in 0..(dim - 1) |-> FloatZero]
        v1 == FillLoop(v0, 0, returns, samplesPerFeature, dim)
        i1 == FillEnd(0, samplesPerFeature, dim)
        v2 == FillLoop(v1, i1, ranges, samplesPerFeature, dim)
        i2 == FillEnd(i1, samplesPerFeature, dim)
        v3 == FillLoop(v2, i2, upperWicks, samplesPerFeature, dim)
        i3 == FillEnd(i2, samplesPerFeature, dim)
        v4 == FillLoop(v3, i3, lowerWicks, samplesPerFeature, dim)
    IN  [k \in 1..dim |-> v4[k - 1]]

\* NewExtractor(dataVersion, vectorDim)
NewExtractor(dataVersion, vectorDim) ==
    [DataVersion |-> dataVersion, VectorDim |-> vectorDim, ClipStd |-> 3]

\* Extractor.Extract(w): the three values returned, a nil as Nil and a
\* feature row or vector as a one-element sequence
Extract(e, w) ==
    IF ~IsComplete(w)
    THEN [row |-> Nil, vec |-> Nil, err |-> Nil]
    ELSE LET candles == w.Candles
             trendSlope == Term("calculateTrendSlope", candles)
             volZScore == Term("calculateVolumeZScore", candles)
         IN  [row |-> <<[WindowID |-> w.WindowID,
                         TrendSlope |-> trendSlope,
                         RealizedVolatility |-> Term("calculateRealizedVolatility", candles),
                         MaxDrawdown |-> Term("calculateMaxDrawdown", candles),
                         ATR |-> Term("calculateATR", candles),
                         VolZScore |-> volZScore,
                         VolBucket |-> Term("ClassifyVolBucket", volZScore),
                         TrendBucket |-> Term("ClassifyTrendBucket", trendSlope),
                         DataVersion |-> e.DataVersion]>>,
              vec |-> <<BuildShapeVector(e, candles)>>,
              err |-> Nil]

\* the calls of SpecExtract: any window of up to MaxExtractW candles, complete
\* or not, and any dimension from 0 on (make panics on a negative one)
ExtractInit ==
    /\ \E w \in 0..MaxExtractW, candles \in SeqsUpTo(Candles, MaxExtractW),
          vectorDim \in 0..MaxVectorDim :
          args = [fn |-> "Extract",
                  e |-> NewExtractor(1, vectorDim),
                  w |-> NewWindow("BTCUSDT", "1m", 59999, w, 1, candles, 0)]
    /\ result = Nil

CallExtract ==
    /\ args # Nil
    /\ args.fn = "Extract"
    /\ result = Nil
    /\ result' = <<Extract(args.e, args.w)>>
    /\ UNCHANGED <<args, coreVars, writerVars, ringVars, emitVars>>

-----------------------------------------------------------------------------
(* Exact arithmetic standing for float64: a number is <<n, d>>, d > 0, in  *)
(* lowest terms. Rounding of the float64 operations is not modelled.       *)

Abs(x) == IF x < 0 THEN -x ELSE x

RECURSIVE GCD(_, _)
GCD(x, y) == IF y = 0 THEN x ELSE GCD(y, x % y)

\* the number n / d, d # 0
Rat(n, d) ==
    LET g == GCD(Abs(n), Abs(d))
        s == IF d < 0 THEN -1 ELSE 1
    IN  <<(s * n) \div g, (s * d) \div g>>

\* float64(n)
RatInt(n) == <<n, 1>>
RAdd(x, y) == Rat(x[1] * y[2] + y[1] * x[2], x[2] * y[2])
RSub(x, y) == Rat(x[1] * y[2] - y[1] * x[2], x[2] * y[2])
RMul(x, y) == Rat(x[1] * y[1], x[2] * y[2])
RDiv(x, y) == Rat(x[1] * y[2], x[2] * y[1])
RLt(x, y) == x[1] * y[2] < y[1] * x[2]
RLe(x, y) == x[1] * y[2] <= y[1] * x[2]
\* int(math.Floor(x)) and int(math.Ceil(x))
RFloor(x) == x[1] \div x[2]
RCeil(x) == -((-x[1]) \div x[2])
\* int(x): truncation toward zero
RTrunc(x) == IF x[1] >= 0 THEN x[1] \div x[2] ELSE -((-x[1]) \div x[2])

RECURSIVE Insert(_, _)
\* v put into the ascending sequence s
Insert(s, v) ==
    IF s = <<>> THEN <<v>>
    ELSE IF RLe(v, s[1]) THEN <<v>> \o s
    ELSE <<s[1]>> \o Insert(Tail(s), v)

RECURSIVE SortFloat64s(_)
\* sort.Float64s(values): ascending
SortFloat64s(values) ==
    IF values = <<>> THEN <<>>
    ELSE Insert(SortFloat64s(Tail(values)), values[1])

-----------------------------------------------------------------------------
(* pkg/outcome: Engine; times in seconds *)

\* largest horizon asked for
MaxHorizon == 3
\* largest number of candles the store holds after the window's last candle
MaxFwd == 3
\* time.Hour * 24 * 30
Lookahead == 2592000

\* model.Candle as the outcome engine reads it: the k-th one-minute candle
\* of a series
OCandle(symbol, k, close) ==
    [Symbol |-> symbol, Timeframe |-> "1m", OpenTime |-> k * 60,
     CloseTime |-> k * 60 + 59, High |-> close + 1, Low |-> close - 1,
     Close |-> close]

\* Window.LastCandle()
LastCandle(w) == IF Len(w.Candles) = 0 THEN Nil ELSE <<w.Candles[Len(w.Candles)]>>

RECURSIVE OrderByOpenTime(_)
\* the candles of set ordered by open_time ascending (open_time is part of
\* the table's key, so no two candles of one series share it)
OrderByOpenTime(set) ==
    IF set = {} THEN <<>>
    ELSE LET first == CHOOSE c \in set : \A d \in set : c.OpenTime <= d.OpenTime
         IN  <<first>> \o OrderByOpenTime(set \ {first})

\* CandleRepo.GetByTimeRange(symbol, timeframe, start, end) on the table store
GetByTimeRange(store, symbol, timeframe, start, end) ==
    OrderByOpenTime({c \in store : /\ c.Symbol = symbol
                                   /\ c.Timeframe = timeframe
                                   /\ c.OpenTime >= start
                                   /\ c.OpenTime <= end})

RECURSIVE Sum(_)
Sum(values) == IF values = <<>> THEN RatInt(0) ELSE RAdd(values[1], Sum(Tail(values)))

\* mean(values)
Mean(values) ==
    IF Len(values) = 0 THEN RatInt(0) ELSE RDiv(Sum(values), RatInt(Len(values)))

\* percentile(sorted, p) with the sequence's first element at index 0 in the
\* code and at 1 here; p a whole number
PercentileNearest(sorted, p) ==
    IF Len(sorted) = 0 THEN RatInt(0)
    ELSE sorted[RFloor(Rat(p * (Len(sorted) - 1), 100)) + 1]

Percentile(sorted, p) ==
    IF Len(sorted) = 0 THEN RatInt(0)
    ELSE IF Len(sorted) = 1 THEN sorted[1]
    ELSE LET rank == RMul(Rat(p, 100), RatInt(Len(sorted) - 1))
             lower == RFloor(rank)
             upper == RCeil(rank)
         IN  IF lower = upper THEN sorted[lower + 1]
             ELSE LET fraction == RSub(rank, RatInt(lower))
                  IN  RAdd(sorted[lower + 1],
                           RMul(fraction, RSub(sorted[upper + 1], sorted[lower + 1])))

RECURSIVE MDDLoop(_, _, _, _)
\* the loop of calculateMDD from candles[i] on
MDDLoop(candles, i, peak, maxDD) ==
    IF i > Len(candles) THEN maxDD
    ELSE LET c == candles[i]
             p == IF RLt(peak, RatInt(c.High)) THEN RatInt(c.High) ELSE peak
             dd == RDiv(RSub(p, RatInt(c.Low)), p)
         IN  MDDLoop(candles, i + 1, p, IF RLt(maxDD, dd) THEN dd ELSE maxDD)

\* calculateMDD(basePrice, candles)
CalculateMDD(basePrice, candles) ==
    IF Len(candles) = 0 \/ basePrice = 0 THEN RatInt(0)
    ELSE MDDLoop(candles, 1, RatInt(basePrice), RatInt(0))

\* the zero value of Result with the three fields Calculate sets
ZeroResult(windowID, horizon, fwdCandles) ==
    [WindowID |-> windowID, Horizon |-> horizon, FwdRetMean |-> RatInt(0),
     FwdRetP10 |-> RatInt(0), FwdRetP50 |-> RatInt(0), FwdRetP90 |-> RatInt(0),
     MDDP95 |-> RatInt(0), FwdCandles |-> fwdCandles]

\* calculateStats(windowID, horizon, basePrice, candles)
CalculateStats(windowID, horizon, basePrice, candles) ==
    IF Len(candles) = 0 THEN ZeroResult(windowID, horizon, 0)
    ELSE LET returns == [i \in 1..Len(candles) |->
                            RDiv(RatInt(candles[i].Close - basePrice), RatInt(basePrice))]
             sortedReturns == SortFloat64s(returns)
         IN  [WindowID |-> windowID, Horizon |-> horizon,
              FwdRetMean |-> Mean(returns),
              FwdRetP10 |-> Percentile(sortedReturns, 10),
              FwdRetP50 |-> Percentile(sortedReturns, 50),
              FwdRetP90 |-> Percentile(sortedReturns, 90),
              MDDP95 |-> CalculateMDD(basePrice, candles),
              FwdCandles |-> Len(candles)]

ForwardAll(candles, horizon) == candles

\* candles[:horizon]
Forward(candles, horizon) == SubSeq(candles, 1, horizon)

RECURSIVE HorizonLoop(_, _, _, _, _)
\* the inner loop of Calculate from horizons[j] on, for window w with the
\* fetched candles
HorizonLoop(w, basePrice, candles, horizons, j) ==
    IF j > Len(horizons) THEN <<>>
    ELSE LET horizon == horizons[j]
             r == IF Len(candles) < horizon
                  THEN ZeroResult(w.WindowID, horizon, Len(candles))
                  ELSE CalculateStats(w.WindowID, horizon, basePrice,
                                      Forward(candles, horizon))
         IN  <<r>> \o HorizonLoop(w, basePrice, candles, horizons, j + 1)

RECURSIVE WindowLoop(_, _, _, _, _)
\* the outer loop of Calculate from windows[i] on; the fetch of the windows
\* whose index is in failing returns an error
WindowLoop(store, windows, horizons, failing, i) ==
    IF i > Len(windows) THEN <<>>
    ELSE LET w == windows[i]
             last == LastCandle(w)
             rest == WindowLoop(store, windows, horizons, failing, i + 1)
         IN  IF last = Nil THEN rest
             ELSE IF i \in failing THEN rest
             ELSE IF last[1].Close = 0 THEN rest
             ELSE HorizonLoop(w, last[1].Close,
                              GetByTimeRange(store, w.Symbol, w.Timeframe,
                                             last[1].CloseTime,
                                             last[1].CloseTime + Lookahead),
                              horizons, 1) \o rest

\* Engine.Calculate(ctx, windows, horizons) over the candle table store
Calculate(store, windows, horizons, failing) ==
    [results |-> WindowLoop(store, windows, horizons, failing, 1), err |-> Nil]

\* a window of one candle, the k-th of its series, closing at close
OWindow(symbol, k, close) ==
    LET c == OCandle(symbol, k, close)
    IN  NewWindow(symbol, "1m", c.CloseTime * 1000, 1, 1, <<c>>, 0)

\* the window lists Calculate is called with: a window with base price 100,
\* alone, after a window with base price 0, after a window without candles,
\* and before a window of another symbol
WindowLists ==
    {<<OWindow("BTCUSDT", 0, 100)>>,
     <<OWindow("ETHUSDT", 0, 0), OWindow("BTCUSDT", 0, 100)>>,
     <<NewWindow("BTCUSDT", "1m", 59000, 1, 1, <<>>, 0), OWindow("BTCUSDT", 0, 100)>>,
     <<OWindow("BTCUSDT", 0, 100), OWindow("ETHUSDT", 0, 100)>>}

\* a candle of symbol that opens at the instant the k-th closes
EdgeCandle(symbol, k, close) ==
    [OCandle(symbol, k + 1, close) EXCEPT !.OpenTime = OCandle(symbol, k, close).CloseTime]

\* the candle tables: the windows' own candles, n candles after them with
\* any of two closes each, one candle of the other symbol, possibly a
\* candle beyond the lookahead, and possibly a candle that opens at the
\* very instant the windows' last candle closes
Stores ==
    {{OCandle("BTCUSDT", 0, 100), OCandle("ETHUSDT", 1, 102)}
        \cup {OCandle("BTCUSDT", k, closes[k]) : k \in 1..n}
        \cup far \cup edge :
        n \in 0..MaxFwd, closes \in [1..MaxFwd -> {98, 103}],
        far \in {{}, {OCandle("BTCUSDT", (Lookahead \div 60) + 1, 103)}},
        edge \in {{}, {EdgeCandle("BTCUSDT", 0, 101)}}}

OutcomeInit ==
    /\ \E store \in Stores, windows \in WindowLists,
          horizons \in SeqsUpTo(0..MaxHorizon, 2) \ {<<>>},
          failing \in {{}, {1}} :
          args = [fn |-> "Calculate", store |-> store, windows |-> windows,
                  horizons |-> horizons, failing |-> failing]
    /\ result = Nil

CallCalculate ==
    /\ args # Nil
    /\ args.fn = "Calculate"
    /\ result = Nil
    /\ result' = <<Calculate(args.store, args.windows, args.horizons, args.failing)>>
    /\ UNCHANGED <<args, coreVars, writerVars, ringVars, emitVars>>

-----------------------------------------------------------------------------
(* pkg/model: ClassifyVolBucket *)

\* the z-scores drawn are the multiples of 1/ZDen from -ZMax to ZMax
ZDen == 9
ZMax == 3

ClassifyVolBucketUnclamped(zScore) ==
    RTrunc(RMul(RAdd(zScore, RatInt(2)), Rat(9, 4)))

ClassifyVolBucketRounded(zScore) ==
    LET bucket == RFloor(RAdd(RMul(RAdd(zScore, RatInt(2)), Rat(9, 4)), Rat(1, 2)))
    IN  IF bucket < 0 THEN 0
        ELSE IF bucket > 9 THEN 9
        ELSE bucket

\* ClassifyVolBucket(zScore); 2.25 is 9/4
ClassifyVolBucket(zScore) ==
    LET bucket == RTrunc(RMul(RAdd(zScore, RatInt(2)), Rat(9, 4)))
    IN  IF bucket < 0 THEN 0
        ELSE IF bucket > 9 THEN 9
        ELSE bucket

\* two z-scores; calculateVolumeZScore divides by the population standard
\* deviation, so a z-score over n candles is at most sqrt(n - 1) in size
VolInit ==
    /\ \E k1, k2 \in (-(ZMax * ZDen))..(ZMax * ZDen) :
          args = [fn |-> "ClassifyVolBucket", z1 |-> Rat(k1, ZDen), z2 |-> Rat(k2, ZDen)]
    /\ result = Nil

CallClassifyVolBucket ==
    /\ args # Nil
    /\ args.fn = "ClassifyVolBucket"
    /\ result = Nil
    /\ result' = <<[b1 |-> ClassifyVolBucket(args.z1), b2 |-> ClassifyVolBucket(args.z2)]>>
    /\ UNCHANGED <<args, coreVars, writerVars, ringVars, emitVars>>

-----------------------------------------------------------------------------
(* pkg/outcome: percentile *)

\* longest sorted sequence percentile is called on, and its largest value
MaxPctLen == 5
MaxPctVal == 5

\* the percentiles asked for: those of calculateStats, and the two ends
Ps == {0, 10, 50, 90, 100}

\* the ascending sequences of whole numbers 1..MaxPctVal of up to MaxPctLen
SortedInputs ==
    {s \in SeqsUpTo(1..MaxPctVal, MaxPctLen) :
        \A i \in 1..(Len(s) - 1) : s[i] <= s[i + 1]}

PctInit ==
    /\ \E s \in SortedInputs :
          args = [fn |-> "percentile", sorted |-> [i \in 1..Len(s) |-> RatInt(s[i])]]
    /\ result = Nil

\* percentile(sorted, p) for each p of Ps
CallPercentile ==
    /\ args # Nil
    /\ args.fn = "percentile"
    /\ result = Nil
    /\ result' = <<[p \in Ps |-> Percentile(args.sorted, p)]>>
    /\ UNCHANGED <<args, coreVars, writerVars, ringVars, emitVars>>

-----------------------------------------------------------------------------
(* pkg/rerank: Reranker; times in days, rates in units of ln 2 per day *)

\* longest result list handed to Rerank
MaxResults == 2

\* math.Exp(x) for x a whole multiple k of ln 2: 2^k
Exp(x) ==
    IF x[1] >= 0 THEN RatInt(2 ^ x[1]) ELSE Rat(1, 2 ^ (-x[1]))

\* float64(score) of a float32 score: exact, every float32 is a float64
Float64(score) == score

\* the TimeDecayConfigs: exponential with Lambda 0, exponential with Lambda
\* ln 2 / 10, and SegmentConfig()
ExpConfig(lambda) ==
    [Lambda |-> lambda, UseSegments |-> FALSE, RecentDays |-> RatInt(3),
     MediumDays |-> RatInt(30), RecentWeight |-> RatInt(1),
     MediumWeight |-> Rat(7, 10), OldWeight |-> Rat(2, 5)]
SegmentConfig ==
    [Lambda |-> RatInt(0), UseSegments |-> TRUE, RecentDays |-> RatInt(3),
     MediumDays |-> RatInt(30), RecentWeight |-> RatInt(1),
     MediumWeight |-> Rat(7, 10), OldWeight |-> Rat(2, 5)]
DecayConfigs == {ExpConfig(RatInt(0)), ExpConfig(Rat(1, 10)), SegmentConfig}

ExponentialDecayUnit(config, ageDays) == Exp(RSub(RatInt(0), RMul(Rat(1, 10), ageDays)))

\* Reranker.exponentialDecay(ageDays)
ExponentialDecay(config, ageDays) ==
    Exp(RMul(RSub(RatInt(0), config.Lambda), ageDays))

\* Reranker.segmentWeight(ageDays)
SegmentWeight(config, ageDays) ==
    IF RLe(ageDays, config.RecentDays) THEN config.RecentWeight
    ELSE IF RLe(ageDays, config.MediumDays) THEN config.MediumWeight
    ELSE config.OldWeight

AgeDaysUnclamped(now, tEnd) == RatInt(now - tEnd)

\* ageDays in Rerank: now.Sub(result.TEnd).Hours() / 24, and 0 if negative
AgeDays(now, tEnd) ==
    LET ageDays == RatInt(now - tEnd)
    IN  IF RLt(ageDays, RatInt(0)) THEN RatInt(0) ELSE ageDays

\* the body of Rerank's first loop: the RankedResult of one search result
Ranked(config, res, now) ==
    LET ageDays == AgeDays(now, res.TEnd)
        weight == IF config.UseSegments THEN SegmentWeight(config, ageDays)
                  ELSE ExponentialDecay(config, ageDays)
    IN  [SearchResult |-> res, OriginalScore |-> res.Score, TimeWeight |-> weight,
         FinalScore |-> RMul(Float64(res.Score), weight)]

SortSliceIdentity(ranked) == {ranked}

\* the orders sort.Slice may leave ranked in under less(i, j) =
\* ranked[i].FinalScore > ranked[j].FinalScore: every arrangement in which
\* no element stands before one of greater FinalScore (sort.Slice is not
\* stable, equal scores may come out in any order)
SortSlice(ranked) ==
    LET n == Len(ranked)
        perms == {f \in [1..n -> 1..n] : \A i, j \in 1..n : f[i] = f[j] => i = j}
    IN  {[k \in 1..n |-> ranked[f[k]]] : f \in
            {g \in perms : \A k \in 1..(n - 1) :
                ~RLt(ranked[g[k]].FinalScore, ranked[g[k + 1]].FinalScore)}}

\* Reranker.Rerank(results, now): the set of slices it may return
Rerank(config, results, now) ==
    SortSlice([i \in 1..Len(results) |-> Ranked(config, results[i], now)])

\* the reference time of the calls
RerankNow == 40

\* milvus.SearchResult, reduced to the fields Rerank reads and the id; t_end
\* ten days after now, at now, and 10, 20 and 40 days before it
SearchResults ==
    [WindowID : {"a", "b"}, Score : {Rat(1, 2), Rat(3, 4)},
     TEnd : {50, 40, 30, 20, 0}]

RerankInit ==
    /\ \E config \in DecayConfigs, results \in SeqsUpTo(SearchResults, MaxResults) :
          args = [fn |-> "Rerank", config |-> config, results |-> results,
                  now |-> RerankNow]
    /\ result = Nil

CallRerank ==
    /\ args # Nil
    /\ args.fn = "Rerank"
    /\ result = Nil
    /\ \E ranked \in Rerank(args.config, args.results, args.now) :
          result' = <<ranked>>
    /\ UNCHANGED <<args, coreVars, writerVars, ringVars, emitVars>>

-----------------------------------------------------------------------------
(* pkg/feature: downsample *)

\* longest series downsample is called with
MaxDownLen == 5

\* the series and target lengths downsample is called with
DownInit ==
    /\ \E values \in SeqsUpTo({1, 2}, MaxDownLen), targetLen \in 0..MaxDownLen :
          args = [fn |-> "downsample", values |-> values, targetLen |-> targetLen]
    /\ result = Nil

CallDownsample ==
    /\ args.fn = "downsample"
    /\ result = Nil
    /\ result' = <<Downsample(args.values, args.targetLen)>>
    /\ UNCHANGED <<args, coreVars, writerVars, ringVars, emitVars>>

-----------------------------------------------------------------------------
(* pkg/outcome: AggregateResults *)

\* longest result list handed to AggregateResults
MaxAggResults == 3

\* byHorizon[horizon] after the grouping loop: the results of that horizon
\* in input order
ByHorizon(results, horizon) == SelectSeq(results, LAMBDA r : r.Horizon = horizon)

\* the field of each result of a list
Column(results, field) == [i \in 1..Len(results) |-> results[i][field]]

AggregateResultsMaxMDD(results) ==
    [horizon \in {results[i].Horizon : i \in 1..Len(results)} |->
        LET horizonResults == ByHorizon(results, horizon)
            mdds == SortFloat64s(Column(horizonResults, "MDDP95"))
        IN  [Horizon |-> horizon,
             SampleCount |-> Len(horizonResults),
             MeanReturn |-> Mean(Column(horizonResults, "FwdRetMean")),
             MedianP10 |-> Mean(Column(horizonResults, "FwdRetP10")),
             MedianP50 |-> Mean(Column(horizonResults, "FwdRetP50")),
             MedianP90 |-> Mean(Column(horizonResults, "FwdRetP90")),
             MDDP95 |-> mdds[Len(mdds)]]]

\* AggregateResults(results): the map returned, as a function on its keys
AggregateResults(results) ==
    [horizon \in {results[i].Horizon : i \in 1..Len(results)} |->
        LET horizonResults == ByHorizon(results, horizon)
            mdds == SortFloat64s(Column(horizonResults, "MDDP95"))
        IN  [Horizon |-> horizon,
             SampleCount |-> Len(horizonResults),
             MeanReturn |-> Mean(Column(horizonResults, "FwdRetMean")),
             MedianP10 |-> Mean(Column(horizonResults, "FwdRetP10")),
             MedianP50 |-> Mean(Column(horizonResults, "FwdRetP50")),
             MedianP90 |-> Mean(Column(horizonResults, "FwdRetP90")),
             MDDP95 |-> Percentile(mdds, 95)]]

\* the Results aggregated: for each of two horizons a Result without
\* statistics, as Calculate returns it short of forward candles, and two
\* Results with statistics
AggInputs ==
    {ZeroResult("w0", horizon, 0) : horizon \in 1..2}
    \cup {[WindowID |-> "w1", Horizon |-> horizon, FwdRetMean |-> Rat(1, 100),
           FwdRetP10 |-> Rat(-2, 100), FwdRetP50 |-> Rat(1, 100),
           FwdRetP90 |-> Rat(4, 100), MDDP95 |-> Rat(3, 100),
           FwdCandles |-> horizon] : horizon \in 1..2}
    \cup {[WindowID |-> "w2", Horizon |-> horizon, FwdRetMean |-> Rat(-3, 100),
           FwdRetP10 |-> Rat(-6, 100), FwdRetP50 |-> Rat(-3, 100),
           FwdRetP90 |-> Rat(0, 100), MDDP95 |-> Rat(7, 100),
           FwdCandles |-> horizon] : horizon \in 1..2}

AggInit ==
    /\ \E results \in SeqsUpTo(AggInputs, MaxAggResults) :
          args = [fn |-> "AggregateResults", results |-> results]
    /\ result = Nil

CallAggregateResults ==
    /\ args # Nil
    /\ args.fn = "AggregateResults"
    /\ result = Nil
    /\ result' = <<AggregateResults(args.results)>>
    /\ UNCHANGED <<args, coreVars, writerVars, ringVars, emitVars>>

-----------------------------------------------------------------------------
(* pkg/outcome: CalculateForWindowIDs over the windows table *)

\* longest list of window IDs handed to CalculateForWindowIDs
MaxIDs == 2

\* WindowRepo.GetByID(windowID) on the table tab: the window scanned from
\* the row's columns (the table has no candles column), or the error of Scan
GetByID(tab, windowID) ==
    IF HasKey(tab, windowID)
    THEN LET row == tab[CHOOSE i \in 1..Len(tab) : tab[i].window_id = windowID]
         IN  [w |-> <<[WindowID |-> row.window_id, Symbol |-> row.symbol,
                       Timeframe |-> row.timeframe, TEnd |-> row.t_end,
                       W |-> row.w, FeatureVersion |-> row.feature_version,
                       Candles |-> <<>>, CreatedAt |-> row.created_at]>>,
              err |-> Nil]
    ELSE [w |-> Nil, err |-> <<"sql: no rows in result set">>]

RECURSIVE FetchLoop(_, _, _)
\* the loop of CalculateForWindowIDs from windowIDs[i] on: the windows found
FetchLoop(tab, windowIDs, i) ==
    IF i > Len(windowIDs) THEN <<>>
    ELSE LET r == GetByID(tab, windowIDs[i])
         IN  IF r.err # Nil THEN FetchLoop(tab, windowIDs, i + 1)
             ELSE <<r.w[1]>> \o FetchLoop(tab, windowIDs, i + 1)

\* Engine.CalculateForWindowIDs(ctx, windowIDs, symbol, timeframe, horizons,
\* windowRepo); symbol and timeframe are not read
CalculateForWindowIDs(store, tab, windowIDs, symbol, timeframe, horizons) ==
    Calculate(store, FetchLoop(tab, windowIDs, 1), horizons, {})

\* the windows the builder made and the writer stored
StoredWindows == <<OWindow("BTCUSDT", 0, 100), OWindow("ETHUSDT", 1, 102)>>

\* the candle tables of the calls: the stored windows' candles and n candles
\* after the first window's
IDStores ==
    {{OCandle("BTCUSDT", 0, 100), OCandle("ETHUSDT", 1, 102)}
        \cup {OCandle("BTCUSDT", k, 103) : k \in 1..n} : n \in 0..MaxFwd}

\* the calls: IDs of stored windows and an ID the table does not hold
IDsInit ==
    /\ \E store \in IDStores,
          windowIDs \in SeqsUpTo({StoredWindows[i].WindowID : i \in 1..Len(StoredWindows)}
                                    \cup {"unknown"}, MaxIDs),
          horizons \in SeqsUpTo(1..MaxHorizon, 2) \ {<<>>} :
          args = [fn |-> "CalculateForWindowIDs", store |-> store,
                  tab |-> [i \in 1..Len(StoredWindows) |-> WindowRow(StoredWindows[i])],
                  made |-> StoredWindows,
                  windowIDs |-> windowIDs, horizons |-> horizons]
    /\ result = Nil

CallCalculateForWindowIDs ==
    /\ args # Nil
    /\ args.fn = "CalculateForWindowIDs"
    /\ result = Nil
    /\ result' = <<CalculateForWindowIDs(args.store, args.tab, args.windowIDs,
                                         "BTCUSDT", "1m", args.horizons)>>
    /\ UNCHANGED <<args, coreVars, writerVars, ringVars, emitVars>>

-----------------------------------------------------------------------------
(* The specifications *)

\* the variables of the specifications that are not running
ExtIdle == WriterIdle /\ RingIdle /\ FnIdle /\ EmitIdle

Init == SeqInit /\ ConcInit /\ WinInit /\ ExtIdle

Next ==
    \/ \E c \in Candles : Push(c)
    \/ Reset

Spec == Init /\ [][Next]_vars

BatchNext ==
    \/ \E c \in Candles : total < MaxBatchPushes /\ Push(c)
    \/ \E cs \in Batches : DoProcessCandles(cs)
    \/ Reset

SpecBatch == Init /\ [][BatchNext]_vars

InitConc == SeqIdle /\ ConcInit /\ WinInit /\ ExtIdle

SpecConc == InitConc /\ [][ConcNext]_vars

InitWin == SeqIdle /\ ConcInit /\ WinInit /\ ExtIdle

SpecWin == InitWin /\ [][WinNext]_vars

CoreIdle == SeqIdle /\ ConcInit /\ WinInit

InitWriter == CoreIdle /\ WriterInit /\ RingIdle /\ FnIdle /\ EmitIdle

SpecWriter == InitWriter /\ [][WriterNext]_vars

InitRing == CoreIdle /\ WriterIdle /\ RingInit /\ FnIdle /\ EmitIdle

SpecRing == InitRing /\ [][RingNext]_vars

FnIdleRest == CoreIdle /\ WriterIdle /\ RingIdle /\ EmitIdle

InitExtract == FnIdleRest /\ ExtractInit

SpecExtract == InitExtract /\ [][CallExtract]_vars

InitOutcome == FnIdleRest /\ OutcomeInit

SpecOutcome == InitOutcome /\ [][CallCalculate]_vars

InitVol == FnIdleRest /\ VolInit

SpecVol == InitVol /\ [][CallClassifyVolBucket]_vars

InitPct == FnIdleRest /\ PctInit

SpecPct == InitPct /\ [][CallPercentile]_vars

InitRerank == FnIdleRest /\ RerankInit

SpecRerank == InitRerank /\ [][CallRerank]_vars

InitEmit == CoreIdle /\ WriterIdle /\ RingIdle /\ FnIdle /\ EmitInit

SpecEmit == InitEmit /\ [][EmitNext]_vars

InitDown == FnIdleRest /\ DownInit

SpecDown == InitDown /\ [][CallDownsample]_vars

InitAgg == FnIdleRest /\ AggInit

SpecAgg == InitAgg /\ [][CallAggregateResults]_vars

InitIDs == FnIdleRest /\ IDsInit

SpecIDs == InitIDs /\ [][CallCalculateForWindowIDs]_vars

-----------------------------------------------------------------------------
(* Properties *)

\* C1: after N pushes into a fresh ring buffer of capacity C >= 1, Size() is
\* min(N, C) and ToSlice() is the last min(N, C) pushed candles in push order.
C1_RingKeepsLastPushes ==
    resets = 0 =>
        LET n == Min(Len(pushed), RingBuffer_Capacity(b.buffer))
        IN  /\ RingBuffer_Size(b.buffer) = n
            /\ RingBuffer_ToSlice(b.buffer) = LastN(pushed, n)

\* the ring has wrapped over candles that differ
C1_Witness ==
    /\ resets = 0
    /\ RingBuffer_Capacity(b.buffer) >= 2
    /\ Len(pushed) > RingBuffer_Capacity(b.buffer)
    /\ b.buffer.head /= 0
    /\ pushed[Len(pushed)] /= pushed[Len(pushed) - 1]

\* C2: with Warmup = W and S >= 1 a fresh builder emits exactly on the pushes
\* number W, W+S, W+2S, ..., and each window emitted holds the last W candles
\* pushed, in push order.
C2_EmitsOnWarmupThenEveryS ==
    (b.Warmup = b.W /\ b.S >= 1 /\ resets = 0 /\ ret.op = "Push") =>
        LET n == Len(pushed)
        IN  /\ ret.ok <=> (n >= b.W /\ (n - b.W) % b.S = 0)
            /\ ret.ok => ret.window[1].Candles = LastN(pushed, b.W)

\* W = 3, S = 2: the fifth push emits (and, by the formula, the fourth and
\* sixth do not)
C2_Witness ==
    /\ b.W = 3 /\ b.S = 2 /\ b.Warmup = 3 /\ resets = 0
    /\ Len(pushed) = 5
    /\ ret.op = "Push" /\ ret.ok

\* C3: a builder with Warmup > W is only delayed: once enough candles have
\* been pushed (here Warmup + W, so that the ring has cycled past the warm-up
\* count) it is warmed-up.
C3_WarmupBeyondWOnlyDelays ==
    (b.Warmup > b.W /\ Len(pushed) >= b.Warmup + b.W) => IsWarmedUp(b)

\* C4: no interleaving of one writer with the readers leaves calls under way
\* that can none of them take another step.
C4_CallsUnderWayCanProceed ==
    (\A g \in Goroutines : pc[g] = "idle") \/ ENABLED Proceed

\* C5: the slice ToSlice is about to return equals the candles held as of the
\* last completed Push/Clear, oldest first, and has the length Size() has then.
C5_ToSliceIsPointInTime ==
    \A g \in Readers :
        pc[g] = "ToSlice_ret" =>
            /\ loc[g].result = view
            /\ Len(loc[g].result) = RingBuffer_Size(rbuf)

\* a reader returns a wrapped, full slice while the writer waits for the lock
C5_Witness ==
    \E g \in Readers :
        /\ pc[g] = "ToSlice_ret"
        /\ Len(loc[g].result) = ConcCap
        /\ loc[g].result[1] /= loc[g].result[ConcCap]
        /\ rbuf.head /= 0
        /\ mu.writer = "waiting"

\* C6: once warmed-up, the builder stays warmed-up through every call but
\* Reset, which returns it to warming-up.
C6_WarmedUpIsLatched ==
    [][ /\ (IsWarmedUp(b) /\ ret'.op /= "Reset") => IsWarmedUp(b)'
        /\ ret'.op = "Reset" => ~IsWarmedUp(b)' ]_vars

\* a push arrived at a builder that was warmed-up already
C6_Witness ==
    /\ IsWarmedUp(b)
    /\ ret.op = "Push"
    /\ Len(pushed) > b.Warmup

\* C7: a builder made with S <= 0 emits no window.
C7_NonPositiveStepEmitsNothing ==
    b.S <= 0 => ~(ret.op = "Push" /\ ret.ok)

\* C8: after Reset the builder is empty, its step counter zero and it is
\* warming-up, and from then on every Push returns what it returns on a
\* builder freshly made from the same Config and pushed the same candles.
C8_ResetBehavesLikeFresh ==
    /\ ret.op = "Reset" =>
           /\ CurrentSize(b) = 0
           /\ RingBuffer_ToSlice(b.buffer) = <<>>
           /\ b.stepCount = 0
           /\ ~IsWarmedUp(b)
    /\ (resets > 0 /\ ret.op = "Push") =>
           /\ ret.ok = ret.freshOk
           /\ ret.window = ret.freshWindow
           /\ IsWarmedUp(b) = IsWarmedUp(fresh)
           /\ CurrentSize(b) = CurrentSize(fresh)

\* a window emitted after a Reset that followed a full buffer
C8_Witness ==
    /\ resets > 0
    /\ total >= Len(pushed) + b.W
    /\ b.W >= 2
    /\ ret.op = "Push" /\ ret.ok

\* what pushing the candles of cs one at a time returns, and the builder left
RECURSIVE SinglePushes(_, _, _)
SinglePushes(bd, cs, now) ==
    IF cs = <<>>
    THEN [b |-> bd, windows |-> <<>>]
    ELSE LET r    == Builder_Push(bd, Head(cs), now)
             rest == SinglePushes(r.b, Tail(cs), now)
         IN  [b |-> rest.b, windows |-> r.window \o rest.windows]

\* C9: ProcessCandles(cs) returns the windows that pushing the candles of cs
\* one at a time emits, in that order, and leaves the builder as they do.
C9_BatchIsRepeatedPush ==
    [][ \A cs \in Batches :
          (ret'.op = "ProcessCandles" /\ pushed' = pushed \o cs) =>
              /\ ret'.windows = SinglePushes(b, cs, Now).windows
              /\ b' = SinglePushes(b, cs, Now).b ]_vars

\* a batch that emitted two windows with the same id
C9_Witness ==
    /\ ret.op = "ProcessCandles"
    /\ Len(ret.windows) >= 2
    /\ ret.windows[1].WindowID = ret.windows[2].WindowID

SameIdentityFields(x, y) ==
    /\ x.Symbol = y.Symbol
    /\ x.Timeframe = y.Timeframe
    /\ x.TEnd = y.TEnd
    /\ x.W = y.W
    /\ x.FeatureVersion = y.FeatureVersion

\* C10: two NewWindow calls with the same symbol, timeframe, t_end, W and
\* feature version return the same WindowID, whatever their candles and
\* whenever they are made.
C10_WindowIDIsFunctionOfIdentity ==
    (Len(wins) = 2 /\ SameIdentityFields(wins[1], wins[2])) =>
        wins[1].WindowID = wins[2].WindowID

\* two calls with the same identity fields, other candles, another time
C10_Witness ==
    /\ Len(wins) = 2
    /\ SameIdentityFields(wins[1], wins[2])
    /\ wins[1].Candles /= wins[2].Candles
    /\ wins[1].CreatedAt /= wins[2].CreatedAt

\* what one successful delivery of wmsg makes of the tables as they were
OneDelivery == WindowHandler(tab0.windows, tab0.features, wmsg, "none")

OneRowPerWindowID(tab) ==
    \A i, j \in 1..Len(tab) : tab[i].window_id = tab[j].window_id => i = j

\* C11: however often the same window batch message is delivered, and also
\* after deliveries that failed and were Nak'ed part-way, both tables hold
\* one row per window_id, and once a delivery has succeeded they hold the
\* rows that one successful delivery leaves.
C11_RedeliveryIsIdempotent ==
    /\ OneRowPerWindowID(tabWindows)
    /\ OneRowPerWindowID(tabFeatures)
    /\ acks >= 1 =>
          /\ tabWindows = OneDelivery.windows
          /\ tabFeatures = OneDelivery.features

\* a batch naming one window twice was delivered three times: the features
\* insert failed once after the windows were in, and two deliveries succeeded
C11_Witness ==
    /\ deliveries = MaxDeliver
    /\ "features" \in naks
    /\ acks = 2
    /\ Len(wmsg.Windows) = 2
    /\ Len(tabWindows) = 1
    /\ Len(tabFeatures) = 1
    /\ tab0.windows = <<>>

\* C12: Extract returns no feature row, no vector and no error for a window
\* whose candle count differs from W, and for a complete window a feature row
\* of that window and a vector of VectorDim entries, again without error.
C12_ExtractOnlyFromCompleteWindows ==
    (args # Nil /\ args.fn = "Extract" /\ result # Nil) =>
        LET r == result[1]
            w == args.w
        IN  IF Len(w.Candles) # w.W
            THEN r.row = Nil /\ r.vec = Nil /\ r.err = Nil
            ELSE /\ r.row # Nil /\ r.row[1].WindowID = w.WindowID
                 /\ r.vec # Nil /\ Len(r.vec[1]) = args.e.VectorDim
                 /\ r.err = Nil

\* Extract has returned on a window that holds candles, but fewer than W
C12_Witness ==
    /\ args # Nil /\ args.fn = "Extract" /\ result # Nil
    /\ Len(args.w.Candles) >= 1
    /\ Len(args.w.Candles) < args.w.W
    /\ args.e.VectorDim >= 4

\* the windows of the call for which Calculate reaches the horizons: a last
\* candle, a fetch that succeeds, a non-zero base price
Reached(i) ==
    /\ Len(args.windows[i].Candles) > 0
    /\ i \notin args.failing
    /\ args.windows[i].Candles[Len(args.windows[i].Candles)].Close # 0

\* the candles of the table the fetch for window w finds
Found(w) ==
    LET last == w.Candles[Len(w.Candles)]
    IN  {c \in args.store : /\ c.Symbol = w.Symbol /\ c.Timeframe = w.Timeframe
                            /\ c.OpenTime >= last.CloseTime
                            /\ c.OpenTime <= last.CloseTime + Lookahead}

\* the n candles of set that open first
Earliest(set, n) ==
    {c \in set : Cardinality({d \in set : d.OpenTime < c.OpenTime}) < n}

\* where the Result of window i and horizon j stands in the results
ResultIndex(i, j) ==
    (Cardinality({k \in 1..i : Reached(k)}) - 1) * Len(args.horizons) + j

\* C13: Calculate returns no error, and for every window with a last candle,
\* a successful fetch and a non-zero base price, and every horizon, one
\* Result: with fewer candles found than the horizon all its statistics are
\* zero and FwdCandles is the number found; otherwise it is computed from
\* the first horizon candles found and FwdCandles is the horizon.
C13_ShortForwardDataGivesZeroStats ==
    (args # Nil /\ args.fn = "Calculate" /\ result # Nil) =>
        /\ result[1].err = Nil
        /\ Len(result[1].results) =
              Cardinality({i \in 1..Len(args.windows) : Reached(i)}) * Len(args.horizons)
        /\ \A i \in 1..Len(args.windows), j \in 1..Len(args.horizons) :
              Reached(i) =>
                 LET w == args.windows[i]
                     horizon == args.horizons[j]
                     r == result[1].results[ResultIndex(i, j)]
                     found == Found(w)
                 IN  /\ r.WindowID = w.WindowID
                     /\ r.Horizon = horizon
                     /\ IF Cardinality(found) < horizon
                        THEN r = ZeroResult(w.WindowID, horizon, Cardinality(found))
                        ELSE /\ r.FwdCandles = horizon
                             /\ r = CalculateStats(w.WindowID, horizon,
                                       w.Candles[Len(w.Candles)].Close,
                                       OrderByOpenTime(Earliest(found, horizon)))

\* one call returned a Result short of its horizon with some candles found,
\* and a Result over fewer candles than were found
C13_Witness ==
    /\ args # Nil /\ args.fn = "Calculate" /\ result # Nil
    /\ Len(args.windows) = 1
    /\ \E k \in 1..Len(result[1].results) :
          /\ result[1].results[k].FwdCandles >= 1
          /\ result[1].results[k].FwdCandles < result[1].results[k].Horizon
    /\ \E k \in 1..Len(result[1].results) :
          /\ result[1].results[k].FwdCandles = result[1].results[k].Horizon
          /\ result[1].results[k].Horizon >= 1
          /\ result[1].results[k].FwdRetMean # RatInt(0)
          /\ Cardinality(Found(args.windows[1])) > result[1].results[k].Horizon

\* the candles a buffer of this capacity holds after the pushes of hist
Held(hist, capacity) == LastN(hist, Min(Len(hist), capacity))

FirstLastOf(rb, hist) ==
    LET held == Held(hist, rb.capacity)
        slice == RingBuffer_ToSlice(rb)
    IN  /\ slice = held
        /\ RingBuffer_First(rb) = IF held = <<>> THEN Nil ELSE <<held[1]>>
        /\ RingBuffer_Last(rb) = IF held = <<>> THEN Nil ELSE <<held[Len(held)]>>
        /\ (RingBuffer_First(rb) = Nil) = (RingBuffer_Size(rb) = 0)
        /\ (RingBuffer_Last(rb) = Nil) = (RingBuffer_Size(rb) = 0)

\* C14: after any sequence of Push and Clear calls First() is the oldest and
\* Last() the newest candle held, the first and last elements of ToSlice(),
\* and both are nil exactly when the buffer holds nothing.
C14_FirstLastAreEndsOfToSlice ==
    /\ FirstLastOf(Orig, ringHist.orig)
    /\ ringCopy # Nil => FirstLastOf(TheCopy, ringHist.copy)

\* the buffer was cleared and has since wrapped around
C14_Witness ==
    /\ \E k \in 1..Len(ringOps) : ringOps[k] = "Clear"
    /\ ring.capacity >= 2
    /\ Len(ringHist.orig) > ring.capacity

NothingOlder(rb, old) ==
    /\ \A k \in 1..Len(RingBuffer_ToSlice(rb)) : RingBuffer_ToSlice(rb)[k] \notin old
    /\ \A c \in old : RingBuffer_First(rb) # <<c>> /\ RingBuffer_Last(rb) # <<c>>

\* C15: right after Clear() the buffer is empty (Size() 0, ToSlice() empty,
\* First() and Last() nil) with its capacity and backing array as before,
\* and no candle pushed before a Clear shows in any later ToSlice(), First()
\* or Last(), whatever is pushed afterwards.
C15_ClearEmptiesForGood ==
    /\ (ringOps # <<>> /\ ringOps[Len(ringOps)] = "Clear") =>
          /\ Observed(Orig) = <<0, <<>>, Nil, Nil>>
          /\ RingBuffer_Capacity(Orig) = Cardinality(DOMAIN ringHeap[OrigData])
    /\ NothingOlder(Orig, ringOld.orig)
    /\ ringCopy # Nil => NothingOlder(TheCopy, ringOld.copy)

\* a buffer that had wrapped around was cleared and pushed again, not yet full
C15_Witness ==
    /\ Cardinality(ringOld.orig) > ring.capacity
    /\ Len(ringHist.orig) >= 1
    /\ Len(ringHist.orig) < ring.capacity

\* C16: Copy() returns a buffer with the capacity, Size() and ToSlice() of
\* the original, and afterwards a Push or Clear on either buffer leaves
\* Size(), ToSlice(), First() and Last() of the other as they were.
C16_CopyIsIndependent ==
    [][ringOps' # ringOps =>
          LET op == ringOps'[Len(ringOps')]
          IN  /\ op = "Copy" =>
                    /\ RingBuffer_Capacity(TheCopy') = RingBuffer_Capacity(Orig)
                    /\ RingBuffer_Size(TheCopy') = RingBuffer_Size(Orig)
                    /\ RingBuffer_ToSlice(TheCopy') = RingBuffer_ToSlice(Orig)
                    /\ Observed(Orig') = Observed(Orig)
              /\ (op \in {"Push", "Clear"} /\ ringCopy # Nil) =>
                    Observed(TheCopy') = Observed(TheCopy)
              /\ op \in {"CopyPush", "CopyClear"} =>
                    Observed(Orig') = Observed(Orig)]_vars

\* a copy of a full buffer was taken, and both have been pushed since
C16_Witness ==
    /\ ringCopy # Nil
    /\ ring.capacity >= 2
    /\ \E i, j, k \in 1..Len(ringOps) :
          /\ i < j /\ i < k
          /\ ringOps[i] = "Copy" /\ ringOps[j] = "Push" /\ ringOps[k] = "CopyPush"
          /\ i > ring.capacity
    /\ RingBuffer_ToSlice(Orig) # RingBuffer_ToSlice(TheCopy)

\* C17: ClassifyVolBucket is non-decreasing in the z-score, returns a bucket
\* in 0..9, returns 0 for every z-score below -2 and 9 for every one above 2.
C17_VolBucketMonotoneAndSaturating ==
    (args # Nil /\ args.fn = "ClassifyVolBucket" /\ result # Nil) =>
        LET b1 == result[1].b1
            b2 == result[1].b2
        IN  /\ RLe(args.z1, args.z2) => b1 <= b2
            /\ b1 \in 0..9
            /\ RLt(args.z1, RatInt(-2)) => b1 = 0
            /\ RLt(RatInt(2), args.z1) => b1 = 9

\* a z-score just below -2, whose scaled value truncates up to 0, was
\* classified next to one just above 2
C17_Witness ==
    /\ args # Nil /\ args.fn = "ClassifyVolBucket" /\ result # Nil
    /\ RLt(args.z1, RatInt(-2)) /\ RLt(Rat(-22, 10), args.z1)
    /\ RLt(RatInt(2), args.z2) /\ RLt(args.z2, Rat(22, 10))

\* the value the interpolation formula gives for whole-number samples s,
\* in hundredths: 100 * s[lo] + (p * (n - 1) - 100 * lo) * (s[hi] - s[lo])
Interpolated(s, p) ==
    LET n == Len(s)
        lo == (p * (n - 1)) \div 100
        hi == IF (p * (n - 1)) % 100 = 0 THEN lo ELSE lo + 1
    IN  Rat(100 * s[lo + 1][1] + (p * (n - 1) - 100 * lo) * (s[hi + 1][1] - s[lo + 1][1]),
            100)

\* C18: percentile interpolates linearly at rank p/100*(n-1) between the
\* values at the floor and ceil ranks and returns the sole value for n = 1;
\* percentile([1,2,3,4,5], 50) = 3 and percentile([1,2], 50) = 1.5; the
\* result lies between the minimum and the maximum, and p10 <= p50 <= p90.
C18_PercentileInterpolates ==
    (args # Nil /\ args.fn = "percentile" /\ result # Nil) =>
        LET s == args.sorted
            r == result[1]
        IN  /\ Len(s) = 1 => \A p \in Ps : r[p] = s[1]
            /\ Len(s) >= 1 =>
                  /\ \A p \in Ps : r[p] = Interpolated(s, p)
                  /\ \A p \in Ps : RLe(s[1], r[p]) /\ RLe(r[p], s[Len(s)])
            /\ RLe(r[10], r[50]) /\ RLe(r[50], r[90])
            /\ s = <<RatInt(1), RatInt(2), RatInt(3), RatInt(4), RatInt(5)>> => r[50] = RatInt(3)
            /\ s = <<RatInt(1), RatInt(2)>> => r[50] = Rat(3, 2)

\* percentile was called on [1, 2]
C18_Witness ==
    /\ args # Nil /\ args.fn = "percentile" /\ result # Nil
    /\ args.sorted = <<RatInt(1), RatInt(2)>>
    /\ result[1][50] = Rat(3, 2)

\* C19: with exponential decay and Lambda = 0, Rerank returns every result
\* with TimeWeight 1 and FinalScore equal to its original score, whether its
\* t_end lies before or after now.
C19_ZeroLambdaKeepsScores ==
    (args # Nil /\ args.fn = "Rerank" /\ result # Nil
        /\ ~args.config.UseSegments /\ args.config.Lambda = RatInt(0)) =>
        /\ Len(result[1]) = Len(args.results)
        /\ \A k \in 1..Len(result[1]) :
              /\ result[1][k].TimeWeight = RatInt(1)
              /\ result[1][k].FinalScore = result[1][k].SearchResult.Score
              /\ result[1][k].OriginalScore = result[1][k].SearchResult.Score
        /\ \A i \in 1..Len(args.results) :
              \E k \in 1..Len(result[1]) : result[1][k].SearchResult = args.results[i]

\* Rerank with Lambda = 0 returned a result forty days old and one whose
\* t_end is ten days ahead of now
C19_Witness ==
    /\ args # Nil /\ args.fn = "Rerank" /\ result # Nil
    /\ ~args.config.UseSegments /\ args.config.Lambda = RatInt(0)
    /\ \E k \in 1..Len(result[1]) : result[1][k].SearchResult.TEnd = 0
    /\ \E k \in 1..Len(result[1]) : result[1][k].SearchResult.TEnd = 50

\* the last call was the Push that completed the warm-up of a builder with
\* S >= 1 and 1 <= Warmup <= W: the Warmup-th push since construction or Reset
WarmupCompleting ==
    /\ b.S >= 1 /\ 1 <= b.Warmup /\ b.Warmup <= b.W
    /\ ret.op = "Push"
    /\ Len(pushed) = b.Warmup

\* C20, as stated: the Push that completes the warm-up, for any S >= 1 and
\* 1 <= Warmup <= W, leaves the builder warmed-up and emits a window itself.
C20_WarmupPushEmits ==
    WarmupCompleting => (IsWarmedUp(b) /\ ret.ok)

\* C20, amended: the Push that completes the warm-up leaves the builder
\* warmed-up with the step counter forced to S, and emits a window itself
\* exactly when the buffer is full by then (Warmup = W); with Warmup < W it
\* emits nothing and the first window comes with the push that fills the
\* buffer, the W-th, without a wait of S further pushes.
C20_WarmupPushEmitsWhenFull ==
    /\ WarmupCompleting =>
          /\ IsWarmedUp(b)
          /\ ret.ok <=> b.Warmup = b.W
          /\ ~ret.ok => b.stepCount = b.S
    /\ (b.S >= 1 /\ 1 <= b.Warmup /\ b.Warmup <= b.W /\ ret.op = "Push"
          /\ Len(pushed) <= b.W) =>
          (ret.ok <=> Len(pushed) = b.W)

\* W = 3, Warmup = 2, S = 3: warmed-up by the second push, the third emits
C20_Witness ==
    /\ b.W = 3 /\ b.Warmup = 2 /\ b.S = 3
    /\ ret.op = "Push" /\ ret.ok
    /\ Len(pushed) = 3

\* C21: every window Push emits, under any configuration and with Resets in
\* between, holds exactly W candles, the W pushed last since the last Reset
\* in push order; its t_end is the close time of the candle just pushed; its
\* symbol, timeframe, W and feature version are the builder's.
C21_EmittedWindowIsLastW ==
    (ret.op = "Push" /\ ret.ok) =>
        LET w == ret.window[1]
        IN  /\ IsComplete(w)
            /\ Len(w.Candles) = cfg.W
            /\ Len(pushed) >= cfg.W
            /\ w.Candles = LastN(pushed, cfg.W)
            /\ w.TEnd = pushed[Len(pushed)].CloseTime
            /\ w.Symbol = cfg.Symbol /\ w.Timeframe = cfg.Timeframe
            /\ w.W = cfg.W /\ w.FeatureVersion = cfg.FeatureVersion

\* a window was emitted after a Reset, from a ring that has wrapped around
\* since, over candles that differ
C21_Witness ==
    /\ ret.op = "Push" /\ ret.ok
    /\ resets >= 1
    /\ cfg.W >= 2
    /\ Len(pushed) > cfg.W
    /\ ret.window[1].Candles[1] # ret.window[1].Candles[cfg.W]

\* C22: a window Push returned reads the same ever after: its candles, its
\* t_end and its window_id are what they were when it was returned, whatever
\* is pushed to the builder and however it is reset afterwards.
C22_EmittedWindowIsNeverMutated ==
    \A i \in 1..Len(kept) : WindowAt(mem, kept[i].w) = kept[i].was

\* since a window was returned the ring has been overwritten throughout and
\* the builder reset
C22_Witness ==
    /\ Len(kept) >= 1
    /\ bp.W >= 2
    /\ \E j, k \in (kept[1].at + 1)..Len(emitLog) :
          /\ j < k
          /\ emitLog[j] = "Push" /\ emitLog[k] = "Reset"
    /\ Len(emitLog) - kept[1].at > bp.W

\* the candles of the table that open strictly after the last candle of w
\* closes and no later than the lookahead bound
StrictlyAfter(w) ==
    LET last == w.Candles[Len(w.Candles)]
    IN  {c \in args.store : /\ c.Symbol = w.Symbol /\ c.Timeframe = w.Timeframe
                            /\ c.OpenTime > last.CloseTime
                            /\ c.OpenTime <= last.CloseTime + Lookahead}

\* C23: the forward candles Calculate counts for a window are candles that
\* open strictly after the window's t_end and no later than 30 days after
\* it: every Result counts and is computed from those candles only.
C23_ForwardCandlesStrictlyAfterTEnd ==
    (args # Nil /\ args.fn = "Calculate" /\ result # Nil) =>
        \A i \in 1..Len(args.windows), j \in 1..Len(args.horizons) :
            Reached(i) =>
               LET w == args.windows[i]
                   horizon == args.horizons[j]
                   r == result[1].results[ResultIndex(i, j)]
                   after == StrictlyAfter(w)
               IN  /\ r.FwdCandles <= Cardinality(after)
                   /\ r.FwdCandles = horizon =>
                         r = CalculateStats(w.WindowID, horizon,
                                w.Candles[Len(w.Candles)].Close,
                                OrderByOpenTime(Earliest(after, horizon)))

\* len / targetLen
Ratio == Rat(Len(args.values), args.targetLen)

\* the input samples with 0-based indices from lo up to, not including, hi
Bucket(lo, hi) ==
    LET n == Len(args.values)
        top == IF hi > n THEN n ELSE hi
    IN  [j \in 1..(top - lo) |-> args.values[lo + j]]

Scaled(z) == RMul(RAdd(z, RatInt(2)), Rat(9, 4))

\* x rounded to the nearest integer, halves away from zero
Round(x) ==
    IF x[1] >= 0 THEN RFloor(RAdd(x, Rat(1, 2))) ELSE -RFloor(RAdd(<<-x[1], x[2]>>, Rat(1, 2)))

\* v held within lo..hi
Clamp(v, lo, hi) == IF v < lo THEN lo ELSE IF v > hi THEN hi ELSE v

\* C25 as stated: vol_bucket is clamp(round((z + 2) * 2.25), 0, 9): the scaled
\* score is rounded to the nearest integer before clamping.
C25_VolBucketRounds ==
    (args # Nil /\ args.fn = "ClassifyVolBucket" /\ result # Nil) =>
        result[1].b1 = Clamp(Round(Scaled(args.z1)), 0, 9)

\* C25, amended: vol_bucket is the scaled score (z + 2) * 2.25 truncated toward
\* zero and then clamped to 0..9: 0 for a scaled score below 1, 9 for one of 9
\* or more, and otherwise the whole number b with b <= scaled score < b + 1.
C25_VolBucketTruncates ==
    (args # Nil /\ args.fn = "ClassifyVolBucket" /\ result # Nil) =>
        LET s == Scaled(args.z1)
            bucket == result[1].b1
        IN  /\ bucket \in 0..9
            /\ RLt(s, RatInt(1)) => bucket = 0
            /\ RLe(RatInt(9), s) => bucket = 9
            /\ (RLe(RatInt(1), s) /\ RLt(s, RatInt(9))) =>
                  RLe(RatInt(bucket), s) /\ RLt(s, RatInt(bucket + 1))

\* the z-score 0, whose scaled score 4.5 lies half-way between two buckets,
\* was classified
C25_Witness ==
    /\ args # Nil /\ args.fn = "ClassifyVolBucket" /\ result # Nil
    /\ args.z1 = RatInt(0)
    /\ result[1].b1 = 4

\* the series of the shape vector in their fixed order
SeriesOrder == <<"returns", "ranges", "upperWicks", "lowerWicks">>

\* C26 as stated: the ShapeVector of a complete window has d entries, laid
\* out as four consecutive blocks of d/4 down-sampled samples each, in the
\* order returns, ranges, upper wicks, lower wicks.
C26_FourBlocksOfQuarterDim ==
    (args # Nil /\ args.fn = "Extract" /\ result # Nil
        /\ Len(args.w.Candles) = args.w.W /\ args.e.VectorDim >= 1) =>
        LET d == args.e.VectorDim
            vec == result[1].vec[1]
        IN  /\ Len(vec) = d
            /\ \A blk \in 0..3 :
                  LET samples == Downsample(Normalize(SeriesOrder[blk + 1], args.w.Candles),
                                            d \div 4)
                  IN  /\ Len(samples) = d \div 4
                      /\ \A k \in 0..((d \div 4) - 1) :
                            vec[blk * (d \div 4) + k + 1] = Float32(samples[k + 1])

\* C26, amended: the ShapeVector of a complete window has d entries: four
\* consecutive blocks of n = min(d/4, W) samples each, in the order returns,
\* ranges, upper wicks, lower wicks, the series down-sampled to n samples
\* when W > n, and zeros in the d - 4n entries after the blocks.
C26_FourBlocksThenZeros ==
    (args # Nil /\ args.fn = "Extract" /\ result # Nil
        /\ Len(args.w.Candles) = args.w.W /\ args.e.VectorDim >= 1) =>
        LET d == args.e.VectorDim
            n == Min(d \div 4, args.w.W)
            vec == result[1].vec[1]
        IN  /\ Len(vec) = d
            /\ \A blk \in 0..3 :
                  LET samples == Downsample(Normalize(SeriesOrder[blk + 1], args.w.Candles), n)
                  IN  /\ Len(samples) = n
                      /\ \A k \in 0..(n - 1) :
                            vec[blk * n + k + 1] = Float32(samples[k + 1])
            /\ \A k \in (4 * n + 1)..d : vec[k] = FloatZero

\* the vector of a complete window shorter than a quarter of a dimension
\* that is not a multiple of 4
C26_Witness ==
    /\ args # Nil /\ args.fn = "Extract" /\ result # Nil
    /\ Len(args.w.Candles) = args.w.W
    /\ args.w.W >= 1
    /\ args.w.W < args.e.VectorDim \div 4
    /\ args.e.VectorDim % 4 # 0
    /\ result[1].vec # Nil

\* C27: Rerank returns a permutation of its input, each result with its
\* input score as OriginalScore and FinalScore = score x TimeWeight, ordered
\* by FinalScore descending: no result stands before one of greater FinalScore.
C27_RerankSortedPermutation ==
    (args # Nil /\ args.fn = "Rerank" /\ result # Nil) =>
        LET n == Len(args.results)
            ranked == result[1]
        IN  /\ Len(ranked) = n
            /\ \E f \in [1..n -> 1..n] :
                  /\ \A i, j \in 1..n : f[i] = f[j] => i = j
                  /\ \A k \in 1..n : ranked[k].SearchResult = args.results[f[k]]
            /\ \A k \in 1..n :
                  /\ ranked[k].OriginalScore = ranked[k].SearchResult.Score
                  /\ ranked[k].FinalScore =
                        RMul(ranked[k].SearchResult.Score, ranked[k].TimeWeight)
            /\ \A k \in 1..(n - 1) :
                  RLe(ranked[k + 1].FinalScore, ranked[k].FinalScore)

\* Rerank moved a result of greater final score, though of smaller original
\* score, from the end of its input to the front
C27_Witness ==
    /\ args # Nil /\ args.fn = "Rerank" /\ result # Nil
    /\ Len(args.results) >= 2
    /\ result[1][1].SearchResult = args.results[Len(args.results)]
    /\ RLt(result[1][2].FinalScore, result[1][1].FinalScore)
    /\ RLt(result[1][1].OriginalScore, result[1][2].OriginalScore)

\* C28: a result whose t_end lies after now gets the TimeWeight of age 0,
\* the weight a result with t_end = now gets, in exponential and in segment
\* mode, and so never more than the age-0 weight.
C28_FutureTEndIsAgeZero ==
    (args # Nil /\ args.fn = "Rerank" /\ result # Nil) =>
        \A k \in 1..Len(result[1]) :
            result[1][k].SearchResult.TEnd > args.now =>
               /\ result[1][k].TimeWeight =
                     IF args.config.UseSegments THEN args.config.RecentWeight
                     ELSE RatInt(1)
               /\ \A l \in 1..Len(result[1]) :
                     result[1][l].SearchResult.TEnd = args.now =>
                        result[1][l].TimeWeight = result[1][k].TimeWeight

\* Rerank with a decay rate above zero returned a result whose t_end lies
\* after now next to one whose t_end is now
C28_Witness ==
    /\ args # Nil /\ args.fn = "Rerank" /\ result # Nil
    /\ ~args.config.UseSegments /\ RLt(RatInt(0), args.config.Lambda)
    /\ \E k \in 1..Len(result[1]) : result[1][k].SearchResult.TEnd > args.now
    /\ \E k \in 1..Len(result[1]) : result[1][k].SearchResult.TEnd = args.now

\* the positions of the results of horizon h in the input
OfHorizon(h) == {i \in 1..Len(args.results) : args.results[i].Horizon = h}

RECURSIVE Total(_, _)
\* the sum of a field over the input results at the positions in set
Total(set, field) ==
    IF set = {} THEN RatInt(0)
    ELSE LET i == CHOOSE j \in set : TRUE
         IN  RAdd(args.results[i][field], Total(set \ {i}, field))

\* the average of a field over the input results at the positions in set
Average(set, field) == RDiv(Total(set, field), RatInt(Cardinality(set)))

\* the value at rank 95/100 * (n - 1) of the ascending values s, between the
\* values at the whole ranks around it in proportion to the rank's fraction
Interpolated95(s) ==
    LET n == Len(s)
        lo == (95 * (n - 1)) \div 100
        part == (95 * (n - 1)) % 100
        hi == IF part = 0 THEN lo ELSE lo + 1
    IN  RAdd(s[lo + 1], RMul(Rat(part, 100), RSub(s[hi + 1], s[lo + 1])))

\* C29: AggregateResults has one entry for every horizon of its input and no
\* other: its SampleCount is the number of input results of that horizon,
\* its mean, p10, p50 and p90 are the averages of the results' values, and
\* its MDDP95 is the interpolated 95th percentile of the results' max
\* drawdowns, at most their maximum and below it when they differ.
C29_AggregatePerHorizon ==
    (args # Nil /\ args.fn = "AggregateResults" /\ result # Nil) =>
        LET agg == result[1]
        IN  /\ DOMAIN agg = {args.results[i].Horizon : i \in 1..Len(args.results)}
            /\ \A h \in DOMAIN agg :
                  LET of == OfHorizon(h)
                      mdds == SortFloat64s([k \in 1..Len(ByHorizon(args.results, h)) |->
                                               ByHorizon(args.results, h)[k].MDDP95])
                      n == Len(mdds)
                  IN  /\ agg[h].Horizon = h
                      /\ agg[h].SampleCount = Cardinality(of)
                      /\ agg[h].MeanReturn = Average(of, "FwdRetMean")
                      /\ agg[h].MedianP10 = Average(of, "FwdRetP10")
                      /\ agg[h].MedianP50 = Average(of, "FwdRetP50")
                      /\ agg[h].MedianP90 = Average(of, "FwdRetP90")
                      /\ agg[h].MDDP95 = Interpolated95(mdds)
                      /\ RLe(agg[h].MDDP95, mdds[n])
                      /\ (n >= 2 /\ mdds[n - 1] # mdds[n]) => RLt(agg[h].MDDP95, mdds[n])

\* results of two horizons were aggregated, two of them of one horizon with
\* different max drawdowns
C29_Witness ==
    /\ args # Nil /\ args.fn = "AggregateResults" /\ result # Nil
    /\ Cardinality(DOMAIN result[1]) = 2
    /\ \E h \in DOMAIN result[1] :
          /\ result[1][h].SampleCount = 2
          /\ \E i, j \in OfHorizon(h) : args.results[i].MDDP95 # args.results[j].MDDP95

RECURSIVE MadeFor(_)
\* the builder-made windows of the IDs of ids that the table holds, in order
MadeFor(ids) ==
    IF ids = <<>> THEN <<>>
    ELSE LET here == {i \in 1..Len(args.made) : args.made[i].WindowID = ids[1]}
         IN  (IF here = {} \/ ~HasKey(args.tab, ids[1]) THEN <<>>
              ELSE <<args.made[CHOOSE i \in here : TRUE]>>) \o MadeFor(Tail(ids))

\* C30: CalculateForWindowIDs returns, for every ID the windows table holds
\* and every horizon, one Result of that window and horizon: the Results
\* Calculate returns for the builder-made windows of those IDs.
C30_ResultsForEveryFoundID ==
    (args # Nil /\ args.fn = "CalculateForWindowIDs" /\ result # Nil) =>
        /\ result[1].err = Nil
        /\ result[1].results =
              Calculate(args.store, MadeFor(args.windowIDs), args.horizons, {}).results
        /\ Len(result[1].results) = Len(MadeFor(args.windowIDs)) * Len(args.horizons)

====
